---- MODULE Spec2Model ----
(***************************************************************************)
(* Model of src/plugins/relay/api/remote/relay-remote-event.c: the         *)
(* dispatcher of events received from a relay remote                       *)
(* (relay_remote_event_recv), its five body-type callbacks, the input      *)
(* callback of a remote buffer and the sync request.                       *)
(*                                                                         *)
(* JSON values are records tagged by "t": the C NULL pointer is JNone, a   *)
(* number is [t |-> "num", n |-> i], a string [t |-> "str", s |-> x],      *)
(* the booleans [t |-> "true"] and [t |-> "false"], an array               *)
(* [t |-> "arr", a |-> <<...>>] and an object [t |-> "obj", o |-> record]. *)
(* Decimal strings (the result of "%lld") are sequences of one-character   *)
(* strings, so that printing and parsing a number are real conversions.    *)
(***************************************************************************)
EXTENDS Integers, Sequences, FiniteSets, TLC

\* ------------------------------------------------------------------ bounds
\* the largest number of buffers of the store
MaxBuffers == 3
\* the longest body array of a message
MaxBatch == 2
\* the largest number of lines of the buffers together
MaxLines == 2

\* ------------------------------------------------------------- C constants
WEECHAT_RC_OK == 0
WEECHAT_RC_ERROR == -1

\* the C NULL pointer for a string
NULL == "<NULL>"

\* F applied to the value of v, v being evaluated once
Force(v, F(_)) == CHOOSE result \in {F(x) : x \in {v}} : TRUE

\* ------------------------------------------------------------ JSON values
JNone == [t |-> "NULL"]
Num(i) == [t |-> "num", n |-> i]
Str(x) == [t |-> "str", s |-> x]
JTrue == [t |-> "true"]
JFalse == [t |-> "false"]
\* a number with a fractional part, whole + 1/2 in absolute value, negative
\* or not: n is what its assignment to an integer variable gives (the
\* fraction is dropped)
NumHalf(negative, whole) ==
    [t |-> "num", n |-> IF negative THEN -whole ELSE whole,
     negative |-> negative, half |-> TRUE]
Arr(q) == [t |-> "arr", a |-> q]
Obj(r) == [t |-> "obj", o |-> r]

\* cJSON_GetObjectItem: the item of an object, NULL for anything else
cJSON_GetObjectItem(json, f) ==
    IF json.t = "obj" /\ f \in DOMAIN json.o THEN json.o[f] ELSE JNone

cJSON_IsArray(json) == json.t = "arr"
cJSON_IsObject(json) == json.t = "obj"
cJSON_IsString(json) == json.t = "str"

\* cJSON_GetStringValue: NULL unless the item is a string
cJSON_GetStringValue(json) == IF json.t = "str" THEN json.s ELSE NULL

\* the macro JSON_GET_NUM: the number, the default when absent or no number
JSON_GET_NUM(json, f, default) ==
    LET json_obj == cJSON_GetObjectItem(json, f)
    IN  IF json_obj.t = "num" THEN json_obj.n ELSE default

\* the macro JSON_GET_STR: the string, NULL when absent or no string
JSON_GET_STR(json, f) ==
    LET json_obj == cJSON_GetObjectItem(json, f)
    IN  IF json_obj.t = "str" THEN json_obj.s ELSE NULL

\* the macro JSON_GET_BOOL: 1 for the JSON value true, 0 for anything else
JSON_GET_BOOL(json, f) ==
    IF cJSON_GetObjectItem(json, f).t = "true" THEN 1 ELSE 0

\* the elements cJSON_ArrayForEach visits
ArrayItems(json) == IF json.t = "arr" THEN json.a ELSE <<>>

\* ------------------------------------------------------ decimal strings
Digit(d) == <<"0", "1", "2", "3", "4", "5", "6", "7", "8", "9">>[d + 1]

DigitValue(c) ==
    CASE c = "0" -> 0 [] c = "1" -> 1 [] c = "2" -> 2 [] c = "3" -> 3
      [] c = "4" -> 4 [] c = "5" -> 5 [] c = "6" -> 6 [] c = "7" -> 7
      [] c = "8" -> 8 [] c = "9" -> 9 [] OTHER -> -1

RECURSIVE NatToStr(_)
NatToStr(n) ==
    IF n < 10 THEN <<Digit(n)>> ELSE NatToStr(n \div 10) \o <<Digit(n % 10)>>

\* snprintf (str, size, "%lld", n)
FormatLL(n) == IF n < 0 THEN <<"-">> \o NatToStr(-n) ELSE NatToStr(n)

\* the digits of s from position i on: [value, position after the last digit]
RECURSIVE ScanDigits(_, _, _)
ScanDigits(s, i, acc) ==
    IF i <= Len(s) /\ DigitValue(s[i]) >= 0
    THEN ScanDigits(s, i + 1, acc * 10 + DigitValue(s[i]))
    ELSE [value |-> acc, end |-> i]

\* strtoll (s, &error, 10): the number read and the position where it stopped
\* (no digit read: 0, stopped at the start)
strtoll(s) ==
    LET neg == Len(s) >= 1 /\ s[1] = "-"
        pos == Len(s) >= 1 /\ s[1] = "+"
        first == IF neg \/ pos THEN 2 ELSE 1
        r == ScanDigits(s, first, 0)
    IN  IF r.end = first
        THEN [value |-> 0, end |-> 1]
        ELSE [value |-> IF neg THEN -r.value ELSE r.value, end |-> r.end]

\* the key "==id:%lld" that looks an id up in a nicklist
IdKey(id) == <<"=", "=", "i", "d", ":">> \o FormatLL(id)

\* --------------------------------------------------------------- the store
(* A buffer of the store:
     full_name   the name it was created with
     props       property -> value, as set by weechat_buffer_set
     localvar    local variable -> value (localvar_set_<name>)
     keys        key -> command (key_bind_<key>)
     input_cb    the remote bound to the input callback (NULL: no callback)
     lines       the lines printed, oldest first
     nicklist    [groups, nicks], each in creation order
   A property name is the pair <<prefix, rest>>: <<"", "title">>,
   <<"localvar_set_", "relay_remote">>, <<"key_bind_", key>>.
   A buffer pointer is its position in the list gui_buffers, 0 for NULL. *)

Prop(name) == <<"", name>>
LocalvarSet(name) == <<"localvar_set_", name>>
KeyBind(key) == <<"key_bind_", key>>

\* weechat_buffer_get_string (buffer, "localvar_<name>") is not NULL
HasLocalvar(buffer, name) == name \in DOMAIN buffer.localvar

\* weechat_buffer_set (buffer, property, value)
weechat_buffer_set(buffer, property, value) ==
    CASE property[1] = "localvar_set_" ->
           [buffer EXCEPT !.localvar =
               [n \in DOMAIN buffer.localvar \cup {property[2]} |->
                   IF n = property[2] THEN value ELSE buffer.localvar[n]]]
      [] property[1] = "key_bind_" ->
           [buffer EXCEPT !.keys =
               [k \in DOMAIN buffer.keys \cup {property[2]} |->
                   IF k = property[2] THEN value ELSE buffer.keys[k]]]
      [] OTHER ->
           [buffer EXCEPT !.props =
               [n \in DOMAIN buffer.props \cup {property[2]} |->
                   IF n = property[2] THEN value ELSE buffer.props[n]]]

\* the properties of a hashtable applied to a buffer one by one
\* (weechat_hashtable_map with relay_remote_event_apply_props)
RECURSIVE ApplyProps(_, _, _)
ApplyProps(buffer, hashtable, todo) ==
    IF todo = {} THEN buffer
    ELSE LET key == CHOOSE k \in todo : TRUE
         IN  ApplyProps(weechat_buffer_set(buffer, key, hashtable[key]),
                        hashtable, todo \ {key})

relay_remote_event_apply_props(buffer, hashtable) ==
    ApplyProps(buffer, hashtable, DOMAIN hashtable)

\* the nicklist of a new buffer: its root group, with the id the store gave it
NewNicklist(genid) ==
    [groups |-> <<[id |-> genid, parent |-> <<>>, name |-> "root",
                   color |-> NULL, visible |-> 0]>>,
     nicks |-> <<>>]

\* weechat_buffer_new_props (name, properties, input_callback, pointer, ...)
weechat_buffer_new_props(full_name, properties, input_cb_pointer, genid) ==
    relay_remote_event_apply_props(
        [full_name |-> full_name, props |-> <<>>, localvar |-> <<>>,
         keys |-> <<>>, input_cb |-> input_cb_pointer, lines |-> <<>>,
         nicklist |-> NewNicklist(genid)],
        properties)

\* a buffer that no remote made: the core buffer of the program
CoreBuffer ==
    [full_name |-> <<"core", "weechat">>, props |-> <<>>, localvar |-> <<>>,
     keys |-> <<>>, input_cb |-> NULL, lines |-> <<>>,
     nicklist |-> [groups |-> <<>>, nicks |-> <<>>]]

\* -------------------------------------------------------------- nicklists
\* the position of the first element of q with the id an "==id:<n>" key
\* names, 0 when there is none
RECURSIVE FirstWithId(_, _, _)
FirstWithId(q, id, i) ==
    IF i > Len(q) THEN 0
    ELSE IF q[i].id = id THEN i ELSE FirstWithId(q, id, i + 1)

\* the id an "==id:<n>" key names
KeyId(key) == strtoll(SubSeq(key, 6, Len(key))).value

IsIdKey(key) == Len(key) > 5 /\ SubSeq(key, 1, 5) = <<"=", "=", "i", "d", ":">>

\* weechat_nicklist_search_group (buffer, NULL, key)
weechat_nicklist_search_group(nicklist, key) ==
    IF IsIdKey(key) THEN FirstWithId(nicklist.groups, KeyId(key), 1) ELSE 0

\* weechat_nicklist_search_nick (buffer, NULL, key)
weechat_nicklist_search_nick(nicklist, key) ==
    IF IsIdKey(key) THEN FirstWithId(nicklist.nicks, KeyId(key), 1) ELSE 0

\* weechat_nicklist_group_set (buffer, group, property, value)
weechat_nicklist_group_set(nicklist, ptr_group, property, value) ==
    [nicklist EXCEPT !.groups[ptr_group] =
        CASE property = "id" -> [@ EXCEPT !.id = strtoll(value).value]
          [] property = "color" -> [@ EXCEPT !.color = value]
          [] property = "visible" ->
               [@ EXCEPT !.visible = IF value = "1" THEN 1 ELSE 0]
          [] OTHER -> @]

\* weechat_nicklist_nick_set (buffer, nick, property, value)
weechat_nicklist_nick_set(nicklist, ptr_nick, property, value) ==
    [nicklist EXCEPT !.nicks[ptr_nick] =
        CASE property = "id" -> [@ EXCEPT !.id = strtoll(value).value]
          [] property = "color" -> [@ EXCEPT !.color = value]
          [] property = "prefix" -> [@ EXCEPT !.prefix = value]
          [] property = "prefix_color" -> [@ EXCEPT !.prefix_color = value]
          [] property = "visible" ->
               [@ EXCEPT !.visible = IF value = "1" THEN 1 ELSE 0]
          [] OTHER -> @]

\* weechat_nicklist_add_group: the new group is the last of the list and has
\* the id the store gave it
weechat_nicklist_add_group(nicklist, ptr_parent_group, name, color, visible, genid) ==
    [nicklist EXCEPT !.groups =
        Append(@, [id |-> genid,
                   parent |-> <<nicklist.groups[ptr_parent_group].id>>,
                   name |-> name, color |-> color, visible |-> visible])]

\* weechat_nicklist_add_nick
weechat_nicklist_add_nick(nicklist, ptr_parent_group, name, color, prefix, prefix_color, visible, genid) ==
    [nicklist EXCEPT !.nicks =
        Append(@, [id |-> genid,
                   group |-> nicklist.groups[ptr_parent_group].id,
                   name |-> name, color |-> color, prefix |-> prefix,
                   prefix_color |-> prefix_color, visible |-> visible])]

\* the elements of q that keep(x) holds of, in order
RECURSIVE SelectSeqBy(_, _)
SelectSeqBy(q, keep) ==
    IF q = <<>> THEN <<>>
    ELSE (IF Head(q) \in keep THEN <<Head(q)>> ELSE <<>>)
         \o SelectSeqBy(Tail(q), keep)

\* the ids of the groups below the groups `ids` (these included)
RECURSIVE Below(_, _)
Below(groups, ids) ==
    LET more == {groups[i].id : i \in {j \in 1..Len(groups) :
                     groups[j].parent # <<>> /\ groups[j].parent[1] \in ids}}
    IN  IF more \subseteq ids THEN ids ELSE Below(groups, ids \cup more)

\* weechat_nicklist_remove_group: the group goes with its subgroups and
\* their nicks
weechat_nicklist_remove_group(nicklist, ptr_group) ==
    LET gone == Below(nicklist.groups, {nicklist.groups[ptr_group].id})
    IN  [groups |-> SelectSeqBy(nicklist.groups,
                        {g \in {nicklist.groups[i] :
                                    i \in 1..Len(nicklist.groups)} :
                            g.id \notin gone}),
         nicks |-> SelectSeqBy(nicklist.nicks,
                        {n \in {nicklist.nicks[i] :
                                    i \in 1..Len(nicklist.nicks)} :
                            n.group \notin gone})]

\* weechat_nicklist_remove_nick
weechat_nicklist_remove_nick(nicklist, ptr_nick) ==
    [nicklist EXCEPT !.nicks =
        SubSeq(@, 1, ptr_nick - 1) \o SubSeq(@, ptr_nick + 1, Len(@))]

\* the lines a buffer holds after the calls of the two print primitives in
\* `lines`: weechat_printf_datetime_tags adds a line after the last one,
\* weechat_printf_y_datetime_tags puts the line at row y, in the place of the
\* line that the row holds
RECURSIVE LinesHeld(_)
LinesHeld(lines) ==
    IF lines = <<>> THEN <<>>
    ELSE LET line == lines[Len(lines)]
             held == LinesHeld(SubSeq(lines, 1, Len(lines) - 1))
         IN  IF line.printf = "weechat_printf_y_datetime_tags"
             THEN Append(
                      SelectSeqBy(held,
                          {l \in {held[i] : i \in 1..Len(held)} :
                              ~(/\ l.printf = "weechat_printf_y_datetime_tags"
                                /\ l.y = line.y)}),
                      line)
             ELSE Append(held, line)

\* ------------------------------------------------------ the environment
(* What the calls of one callback return that the code tests:
     hashtable_new     weechat_hashtable_new gives a hashtable
     buffer_new        weechat_asprintf and weechat_buffer_new_props give a
                       buffer
     asprintf_key      weechat_asprintf of "key_bind_%s" gives a string
     string_dyn_alloc  weechat_string_dyn_alloc gives a string
     add_group         the group ids weechat_nicklist_add_group refuses
     add_nick          the nick ids weechat_nicklist_add_nick refuses
     genid             the id the store gives what it creates *)
EnvOk(genid) ==
    [hashtable_new |-> TRUE, buffer_new |-> TRUE, asprintf_key |-> TRUE,
     string_dyn_alloc |-> TRUE, add_group |-> {}, add_nick |-> {},
     genid |-> genid]

\* -------------------------------------------------------------- searches
RECURSIVE SearchBufferFrom(_, _, _, _)
SearchBufferFrom(bufs, name, str_id, ptr_buffer) ==
    IF ptr_buffer > Len(bufs) THEN 0
    ELSE IF /\ HasLocalvar(bufs[ptr_buffer], "relay_remote")
            /\ HasLocalvar(bufs[ptr_buffer], "relay_remote_id")
            /\ bufs[ptr_buffer].localvar["relay_remote"] = name
            /\ bufs[ptr_buffer].localvar["relay_remote_id"] = str_id
         THEN ptr_buffer
         ELSE SearchBufferFrom(bufs, name, str_id, ptr_buffer + 1)

\* a search that compares the id and not the name of the remote
RECURSIVE SearchIdFrom(_, _, _)
SearchIdFrom(bufs, str_id, ptr_buffer) ==
    IF ptr_buffer > Len(bufs) THEN 0
    ELSE IF /\ HasLocalvar(bufs[ptr_buffer], "relay_remote")
            /\ HasLocalvar(bufs[ptr_buffer], "relay_remote_id")
            /\ bufs[ptr_buffer].localvar["relay_remote_id"] = str_id
         THEN ptr_buffer
         ELSE SearchIdFrom(bufs, str_id, ptr_buffer + 1)

\* a search that takes a negative id as any other
search_buffer_negative_too(bufs, remote, id) ==
    SearchBufferFrom(bufs, remote, FormatLL(id), 1)

search_buffer_any_remote(bufs, remote, id) ==
    IF id < 0 THEN 0 ELSE SearchIdFrom(bufs, FormatLL(id), 1)

\* relay_remote_event_search_buffer: the first buffer of the list whose local
\* variables name the remote and the id, 0 (NULL) when the id is negative or
\* no buffer does
relay_remote_event_search_buffer(bufs, remote, id) ==
    IF id < 0 THEN 0 ELSE SearchBufferFrom(bufs, remote, FormatLL(id), 1)

\* a reading of the local variable relay_remote_number in place of the id
get_buffer_id_from_number(bufs, buffer) ==
    IF buffer = 0 THEN -1
    ELSE IF ~HasLocalvar(bufs[buffer], "relay_remote_number") THEN -1
    ELSE LET ptr_id == bufs[buffer].localvar["relay_remote_number"]
             r == strtoll(ptr_id)
         IN  IF r.end <= Len(ptr_id) THEN -1 ELSE r.value

\* relay_remote_event_get_buffer_id: the id in the local variable
\* relay_remote_id, -1 when it is missing or is followed by anything
relay_remote_event_get_buffer_id(bufs, buffer) ==
    IF buffer = 0 THEN -1
    ELSE IF ~HasLocalvar(bufs[buffer], "relay_remote_id") THEN -1
    ELSE LET ptr_id == bufs[buffer].localvar["relay_remote_id"]
             r == strtoll(ptr_id)
         IN  IF r.end <= Len(ptr_id) THEN -1 ELSE r.value

\* ------------------------------------------------------- callback "line"
\* weechat_util_parse_time: the one date of the model that parses
weechat_util_parse_time(date) ==
    IF date = "2024-01-02T03:04:05.000006Z"
    THEN [ok |-> TRUE, tv_sec |-> 1704164645, tv_usec |-> 6]
    ELSE [ok |-> FALSE, tv_sec |-> 0, tv_usec |-> 0]

\* a joining of the tags that puts nothing between them
RECURSIVE join_tags_without_separator(_, _)
join_tags_without_separator(tags, items) ==
    IF items = <<>> THEN tags
    ELSE LET add == cJSON_GetStringValue(Head(items))
         IN  join_tags_without_separator(
                 tags \o (IF add = NULL \/ add = "" THEN <<>> ELSE <<add>>),
                 Tail(items))

\* the tags of a line joined as lines 162-168 join them: a "," before every
\* element met when the string is not empty, an element that is no string or
\* is empty adding nothing
RECURSIVE JoinTags(_, _)
JoinTags(tags, items) ==
    IF items = <<>> THEN tags
    ELSE LET sep == IF tags # <<>> THEN <<",">> ELSE <<>>
             add == cJSON_GetStringValue(Head(items))
         IN  JoinTags(tags \o sep
                        \o (IF add = NULL \/ add = "" THEN <<>> ELSE <<add>>),
                      Tail(items))

\* a callback that appends every line, whatever its y
cb_line_always_appended(bufs, event, env) ==
    IF event.buffer = 0 THEN bufs
    ELSE
    LET date == JSON_GET_STR(event.json, "date")
        prefix == JSON_GET_STR(event.json, "prefix")
        message == JSON_GET_STR(event.json, "message")
        parsed == weechat_util_parse_time(date)
        json_tags == cJSON_GetObjectItem(event.json, "tags")
        tags == IF env.string_dyn_alloc
                THEN <<JoinTags(<<>>, ArrayItems(json_tags))>>
                ELSE <<>>
        text == <<IF prefix # NULL /\ prefix # "" THEN prefix ELSE "",
                  IF prefix # NULL /\ prefix # "" THEN "\t" ELSE "",
                  message>>
        line == [printf |-> "weechat_printf_datetime_tags", y |-> -1,
                 tv_sec |-> parsed.tv_sec, tv_usec |-> parsed.tv_usec,
                 tags |-> tags, text |-> text]
    IN  [bufs EXCEPT ![event.buffer].lines = Append(@, line)]

\* relay_remote_event_cb_line: the buffers after the callback
relay_remote_event_cb_line(bufs, event, env) ==
    IF event.buffer = 0 THEN bufs
    ELSE
    LET y == JSON_GET_NUM(event.json, "y", -1)
        date == JSON_GET_STR(event.json, "date")
        prefix == JSON_GET_STR(event.json, "prefix")
        message == JSON_GET_STR(event.json, "message")
        parsed == weechat_util_parse_time(date)
        tv_date == IF parsed.ok
                   THEN [tv_sec |-> parsed.tv_sec, tv_usec |-> parsed.tv_usec]
                   ELSE [tv_sec |-> 0, tv_usec |-> 0]
        json_tags == cJSON_GetObjectItem(event.json, "tags")
        tags == IF env.string_dyn_alloc
                THEN <<JoinTags(<<>>, ArrayItems(json_tags))>>
                ELSE <<>>
        text == <<IF prefix # NULL /\ prefix # "" THEN prefix ELSE "",
                  IF prefix # NULL /\ prefix # "" THEN "\t" ELSE "",
                  message>>
        line == IF y >= 0
                THEN [printf |-> "weechat_printf_y_datetime_tags", y |-> y,
                      tv_sec |-> tv_date.tv_sec, tv_usec |-> tv_date.tv_usec,
                      tags |-> tags, text |-> text]
                ELSE [printf |-> "weechat_printf_datetime_tags", y |-> -1,
                      tv_sec |-> tv_date.tv_sec, tv_usec |-> tv_date.tv_usec,
                      tags |-> tags, text |-> text]
    IN  [bufs EXCEPT ![event.buffer].lines = Append(@, line)]

\* -------------------------------------------- nicks and groups of a buffer
\* a handler that adds the nick and does not set its id
handle_nick_without_id(nicklist, json, env) ==
    LET id == JSON_GET_NUM(json, "id", -1)
        parent_group_id == JSON_GET_NUM(json, "parent_group_id", -1)
        name == JSON_GET_STR(json, "name")
        color_name == JSON_GET_STR(json, "color_name")
        prefix == JSON_GET_STR(json, "prefix")
        prefix_color_name == JSON_GET_STR(json, "prefix_color_name")
        visible == JSON_GET_BOOL(json, "visible")
        ptr_nick == weechat_nicklist_search_nick(nicklist, IdKey(id))
        ptr_parent_group ==
            weechat_nicklist_search_group(nicklist, IdKey(parent_group_id))
        added == weechat_nicklist_add_nick(
                     nicklist, ptr_parent_group, name, color_name, prefix,
                     prefix_color_name, visible, env.genid)
    IN  IF ptr_nick # 0
        THEN weechat_nicklist_nick_set(
               weechat_nicklist_nick_set(
                 weechat_nicklist_nick_set(
                   weechat_nicklist_nick_set(
                     weechat_nicklist_nick_set(
                       nicklist, ptr_nick, "id", FormatLL(id)),
                     ptr_nick, "color", color_name),
                   ptr_nick, "prefix", prefix),
                 ptr_nick, "prefix_color", prefix_color_name),
               ptr_nick, "visible", IF visible = 1 THEN "1" ELSE "0")
        ELSE IF parent_group_id < 0 THEN nicklist
        ELSE IF ptr_parent_group = 0 THEN nicklist
        ELSE IF id \in env.add_nick THEN nicklist
        ELSE added

\* relay_remote_event_handle_nick: the nicklist after a nick is added or
\* updated
\* a nick upsert that replaces the nick it finds by a new one made from the
\* payload
handle_nick_replaces(nicklist, json, env) ==
    LET id == JSON_GET_NUM(json, "id", -1)
        parent_group_id == JSON_GET_NUM(json, "parent_group_id", -1)
        ptr_nick == weechat_nicklist_search_nick(nicklist, IdKey(id))
        without == IF ptr_nick # 0
                   THEN weechat_nicklist_remove_nick(nicklist, ptr_nick)
                   ELSE nicklist
        ptr_parent_group ==
            weechat_nicklist_search_group(without, IdKey(parent_group_id))
        added == weechat_nicklist_add_nick(
                     without, ptr_parent_group, JSON_GET_STR(json, "name"),
                     JSON_GET_STR(json, "color_name"),
                     JSON_GET_STR(json, "prefix"),
                     JSON_GET_STR(json, "prefix_color_name"),
                     JSON_GET_BOOL(json, "visible"), env.genid)
    IN  IF parent_group_id < 0 THEN nicklist
        ELSE IF ptr_parent_group = 0 THEN nicklist
        ELSE IF id \in env.add_nick THEN nicklist
        ELSE weechat_nicklist_nick_set(
                 added, Len(added.nicks), "id", FormatLL(id))

\* a nick upsert that does not search the nick and adds it each time
handle_nick_adds_again(nicklist, json, env) ==
    LET id == JSON_GET_NUM(json, "id", -1)
        parent_group_id == JSON_GET_NUM(json, "parent_group_id", -1)
        ptr_parent_group ==
            weechat_nicklist_search_group(nicklist, IdKey(parent_group_id))
        added == weechat_nicklist_add_nick(
                     nicklist, ptr_parent_group, JSON_GET_STR(json, "name"),
                     JSON_GET_STR(json, "color_name"),
                     JSON_GET_STR(json, "prefix"),
                     JSON_GET_STR(json, "prefix_color_name"),
                     JSON_GET_BOOL(json, "visible"), env.genid)
    IN  IF parent_group_id < 0 THEN nicklist
        ELSE IF ptr_parent_group = 0 THEN nicklist
        ELSE IF id \in env.add_nick THEN nicklist
        ELSE weechat_nicklist_nick_set(
                 added, Len(added.nicks), "id", FormatLL(id))

relay_remote_event_handle_nick(nicklist, json, env) ==
    LET id == JSON_GET_NUM(json, "id", -1)
        parent_group_id == JSON_GET_NUM(json, "parent_group_id", -1)
        name == JSON_GET_STR(json, "name")
        color_name == JSON_GET_STR(json, "color_name")
        prefix == JSON_GET_STR(json, "prefix")
        prefix_color_name == JSON_GET_STR(json, "prefix_color_name")
        visible == JSON_GET_BOOL(json, "visible")
        ptr_nick == weechat_nicklist_search_nick(nicklist, IdKey(id))
        ptr_parent_group ==
            weechat_nicklist_search_group(nicklist, IdKey(parent_group_id))
        added == weechat_nicklist_add_nick(
                     nicklist, ptr_parent_group, name, color_name, prefix,
                     prefix_color_name, visible, env.genid)
    IN  IF ptr_nick # 0
        THEN weechat_nicklist_nick_set(
               weechat_nicklist_nick_set(
                 weechat_nicklist_nick_set(
                   weechat_nicklist_nick_set(
                     weechat_nicklist_nick_set(
                       nicklist, ptr_nick, "id", FormatLL(id)),
                     ptr_nick, "color", color_name),
                   ptr_nick, "prefix", prefix),
                 ptr_nick, "prefix_color", prefix_color_name),
               ptr_nick, "visible", IF visible = 1 THEN "1" ELSE "0")
        ELSE IF parent_group_id < 0 THEN nicklist
        ELSE IF ptr_parent_group = 0 THEN nicklist
        ELSE IF id \in env.add_nick THEN nicklist
        ELSE weechat_nicklist_nick_set(
                 added, Len(added.nicks), "id", FormatLL(id))

RECURSIVE relay_remote_event_handle_nick_group(_, _, _)
RECURSIVE HandleSubgroups(_, _, _)
RECURSIVE HandleNicks(_, _, _)

\* lines 317-325: every subgroup of the array, in order
HandleSubgroups(nicklist, json_groups, env) ==
    IF json_groups = <<>> THEN nicklist
    ELSE HandleSubgroups(
             relay_remote_event_handle_nick_group(
                 nicklist, Head(json_groups), env),
             Tail(json_groups), env)

\* lines 327-335: every nick of the array, in order
HandleNicks(nicklist, json_nicks, env) ==
    IF json_nicks = <<>> THEN nicklist
    ELSE HandleNicks(
             relay_remote_event_handle_nick(nicklist, Head(json_nicks), env),
             Tail(json_nicks), env)

\* a handler that puts a group whose parent_group_id is negative under the
\* root (the first group of the list)
handle_nick_group_under_root(nicklist, json, env) ==
    LET id == JSON_GET_NUM(json, "id", -1)
        parent_group_id == JSON_GET_NUM(json, "parent_group_id", -1)
        name == JSON_GET_STR(json, "name")
        color_name == JSON_GET_STR(json, "color_name")
        visible == JSON_GET_BOOL(json, "visible")
        ptr_group == weechat_nicklist_search_group(nicklist, IdKey(id))
        ptr_parent_group ==
            IF parent_group_id < 0 THEN 1
            ELSE weechat_nicklist_search_group(
                     nicklist, IdKey(parent_group_id))
        updated == weechat_nicklist_group_set(
                     weechat_nicklist_group_set(
                       weechat_nicklist_group_set(
                         nicklist, ptr_group, "id", FormatLL(id)),
                       ptr_group, "color", color_name),
                     ptr_group, "visible", IF visible = 1 THEN "1" ELSE "0")
        added == weechat_nicklist_add_group(
                     nicklist, ptr_parent_group, name, color_name, visible,
                     env.genid)
        created == IF id \in env.add_group THEN nicklist
                   ELSE weechat_nicklist_group_set(
                            added, Len(added.groups), "id", FormatLL(id))
        children(nl) ==
            HandleNicks(
                HandleSubgroups(
                    nl, ArrayItems(cJSON_GetObjectItem(json, "groups")), env),
                ArrayItems(cJSON_GetObjectItem(json, "nicks")), env)
    IN  IF ptr_group # 0 THEN children(updated)
        ELSE IF ptr_parent_group = 0 THEN nicklist
        ELSE children(created)

\* a handler that takes the nicks of a group before its subgroups
handle_nick_group_nicks_first(nicklist, json, env) ==
    LET id == JSON_GET_NUM(json, "id", -1)
        parent_group_id == JSON_GET_NUM(json, "parent_group_id", -1)
        name == JSON_GET_STR(json, "name")
        color_name == JSON_GET_STR(json, "color_name")
        visible == JSON_GET_BOOL(json, "visible")
        ptr_group == weechat_nicklist_search_group(nicklist, IdKey(id))
        ptr_parent_group ==
            weechat_nicklist_search_group(nicklist, IdKey(parent_group_id))
        updated == weechat_nicklist_group_set(
                     weechat_nicklist_group_set(
                       weechat_nicklist_group_set(
                         nicklist, ptr_group, "id", FormatLL(id)),
                       ptr_group, "color", color_name),
                     ptr_group, "visible", IF visible = 1 THEN "1" ELSE "0")
        added == weechat_nicklist_add_group(
                     nicklist, ptr_parent_group, name, color_name, visible,
                     env.genid)
        created == IF id \in env.add_group THEN nicklist
                   ELSE weechat_nicklist_group_set(
                            added, Len(added.groups), "id", FormatLL(id))
        children(nl) ==
            HandleSubgroups(
                HandleNicks(
                    nl, ArrayItems(cJSON_GetObjectItem(json, "nicks")), env),
                ArrayItems(cJSON_GetObjectItem(json, "groups")), env)
    IN  IF ptr_group # 0 THEN children(updated)
        ELSE IF parent_group_id < 0 THEN nicklist
        ELSE IF ptr_parent_group = 0 THEN nicklist
        ELSE children(created)

\* a handler that goes on to the subgroups and nicks of a group it could not
\* create
handle_nick_group_keeps_children(nicklist, json, env) ==
    LET id == JSON_GET_NUM(json, "id", -1)
        parent_group_id == JSON_GET_NUM(json, "parent_group_id", -1)
        name == JSON_GET_STR(json, "name")
        color_name == JSON_GET_STR(json, "color_name")
        visible == JSON_GET_BOOL(json, "visible")
        ptr_group == weechat_nicklist_search_group(nicklist, IdKey(id))
        ptr_parent_group ==
            weechat_nicklist_search_group(nicklist, IdKey(parent_group_id))
        updated == weechat_nicklist_group_set(
                     weechat_nicklist_group_set(
                       weechat_nicklist_group_set(
                         nicklist, ptr_group, "id", FormatLL(id)),
                       ptr_group, "color", color_name),
                     ptr_group, "visible", IF visible = 1 THEN "1" ELSE "0")
        added == weechat_nicklist_add_group(
                     nicklist, ptr_parent_group, name, color_name, visible,
                     env.genid)
        created == IF id \in env.add_group THEN nicklist
                   ELSE weechat_nicklist_group_set(
                            added, Len(added.groups), "id", FormatLL(id))
        children(nl) ==
            HandleNicks(
                HandleSubgroups(
                    nl, ArrayItems(cJSON_GetObjectItem(json, "groups")), env),
                ArrayItems(cJSON_GetObjectItem(json, "nicks")), env)
    IN  IF ptr_group # 0 THEN children(updated)
        ELSE IF parent_group_id < 0 THEN children(nicklist)
        ELSE IF ptr_parent_group = 0 THEN children(nicklist)
        ELSE children(created)

\* relay_remote_event_handle_nick_group: the nicklist after a group is added
\* or updated, with its subgroups and nicks; a group that cannot be created
\* for want of a parent ends the function (lines 302-307)
relay_remote_event_handle_nick_group(nicklist, json, env) ==
    LET id == JSON_GET_NUM(json, "id", -1)
        parent_group_id == JSON_GET_NUM(json, "parent_group_id", -1)
        name == JSON_GET_STR(json, "name")
        color_name == JSON_GET_STR(json, "color_name")
        visible == JSON_GET_BOOL(json, "visible")
        ptr_group == weechat_nicklist_search_group(nicklist, IdKey(id))
        ptr_parent_group ==
            weechat_nicklist_search_group(nicklist, IdKey(parent_group_id))
        updated == weechat_nicklist_group_set(
                     weechat_nicklist_group_set(
                       weechat_nicklist_group_set(
                         nicklist, ptr_group, "id", FormatLL(id)),
                       ptr_group, "color", color_name),
                     ptr_group, "visible", IF visible = 1 THEN "1" ELSE "0")
        added == weechat_nicklist_add_group(
                     nicklist, ptr_parent_group, name, color_name, visible,
                     env.genid)
        created == IF id \in env.add_group THEN nicklist
                   ELSE weechat_nicklist_group_set(
                            added, Len(added.groups), "id", FormatLL(id))
        children(nl) ==
            HandleNicks(
                HandleSubgroups(
                    nl, ArrayItems(cJSON_GetObjectItem(json, "groups")), env),
                ArrayItems(cJSON_GetObjectItem(json, "nicks")), env)
    IN  IF ptr_group # 0 THEN children(updated)
        ELSE IF parent_group_id < 0 THEN nicklist
        ELSE IF ptr_parent_group = 0 THEN nicklist
        ELSE children(created)

\* relay_remote_event_cb_nick_group: the buffers after the callback
relay_remote_event_cb_nick_group(bufs, event, env) ==
    IF event.buffer = 0 THEN bufs
    ELSE
    LET nicklist == bufs[event.buffer].nicklist
        id == JSON_GET_NUM(event.json, "id", -1)
        ptr_group == weechat_nicklist_search_group(nicklist, IdKey(id))
    IN  IF event.name = "nicklist_group_removing"
        THEN IF ptr_group # 0
             THEN [bufs EXCEPT ![event.buffer].nicklist =
                      weechat_nicklist_remove_group(nicklist, ptr_group)]
             ELSE bufs
        ELSE [bufs EXCEPT ![event.buffer].nicklist =
                 relay_remote_event_handle_nick_group(
                     nicklist, event.json, env)]

\* relay_remote_event_cb_nick: the buffers after the callback
\* a nick callback with one index for nicks and groups: a removal that finds
\* no nick with the id removes the group with the id
cb_nick_removes_either(bufs, event, env) ==
    IF event.buffer = 0 THEN bufs
    ELSE
    LET nicklist == bufs[event.buffer].nicklist
        id == JSON_GET_NUM(event.json, "id", -1)
        ptr_nick == weechat_nicklist_search_nick(nicklist, IdKey(id))
        ptr_group == weechat_nicklist_search_group(nicklist, IdKey(id))
    IN  IF event.name = "nicklist_nick_removing"
        THEN IF ptr_nick # 0
             THEN [bufs EXCEPT ![event.buffer].nicklist =
                      weechat_nicklist_remove_nick(nicklist, ptr_nick)]
             ELSE IF ptr_group # 0
             THEN [bufs EXCEPT ![event.buffer].nicklist =
                      weechat_nicklist_remove_group(nicklist, ptr_group)]
             ELSE bufs
        ELSE [bufs EXCEPT ![event.buffer].nicklist =
                 relay_remote_event_handle_nick(nicklist, event.json, env)]

relay_remote_event_cb_nick(bufs, event, env) ==
    IF event.buffer = 0 THEN bufs
    ELSE
    LET nicklist == bufs[event.buffer].nicklist
        id == JSON_GET_NUM(event.json, "id", -1)
        ptr_nick == weechat_nicklist_search_nick(nicklist, IdKey(id))
    IN  IF event.name = "nicklist_nick_removing"
        THEN IF ptr_nick # 0
             THEN [bufs EXCEPT ![event.buffer].nicklist =
                      weechat_nicklist_remove_nick(nicklist, ptr_nick)]
             ELSE bufs
        ELSE [bufs EXCEPT ![event.buffer].nicklist =
                 relay_remote_event_handle_nick(nicklist, event.json, env)]

\* ----------------------------------------------------- callback "buffer"
\* lines 546-569: the keys of the array bound one by one
RECURSIVE BindKeys(_, _, _)
BindKeys(buffer, json_keys, env) ==
    IF json_keys = <<>> THEN buffer
    ELSE LET json_key_name == cJSON_GetObjectItem(Head(json_keys), "key")
             json_key_command ==
                 cJSON_GetObjectItem(Head(json_keys), "command")
         IN  BindKeys(
                 IF /\ cJSON_IsString(json_key_name)
                    /\ cJSON_IsString(json_key_command)
                    /\ env.asprintf_key
                 THEN weechat_buffer_set(
                          buffer,
                          KeyBind(cJSON_GetStringValue(json_key_name)),
                          cJSON_GetStringValue(json_key_command))
                 ELSE buffer,
                 Tail(json_keys), env)

\* a loop over the array "lines" that empties the buffer before each line
RECURSIVE add_lines_in_place(_, _, _, _)
add_lines_in_place(bufs, event_line, json_lines, env) ==
    IF json_lines = <<>> THEN bufs
    ELSE add_lines_in_place(
             relay_remote_event_cb_line(
                 [bufs EXCEPT ![event_line.buffer].lines = <<>>],
                 [event_line EXCEPT !.json = Head(json_lines)], env),
             event_line, Tail(json_lines), env)

\* lines 572-583: the callback "line" on every line of the array
RECURSIVE AddLines(_, _, _, _)
AddLines(bufs, event_line, json_lines, env) ==
    IF json_lines = <<>> THEN bufs
    ELSE AddLines(
             relay_remote_event_cb_line(
                 bufs, [event_line EXCEPT !.json = Head(json_lines)], env),
             event_line, Tail(json_lines), env)

\* lines 503-522: the properties of the buffer
BufferProps(event) ==
    LET json == event.json
        flag(f) == IF JSON_GET_BOOL(json, f) = 1 THEN "1" ELSE "0"
    IN  (Prop("type") :> JSON_GET_STR(json, "type"))
        @@ (Prop("short_name") :> JSON_GET_STR(json, "short_name"))
        @@ (Prop("title") :> JSON_GET_STR(json, "title"))
        @@ (Prop("nicklist") :> flag("nicklist"))
        @@ (Prop("nicklist_case_sensitive") :>
               flag("nicklist_case_sensitive"))
        @@ (Prop("nicklist_display_groups") :>
               flag("nicklist_display_groups"))
        @@ (LocalvarSet("relay_remote") :> event.remote)
        @@ (LocalvarSet("relay_remote_id") :>
               FormatLL(JSON_GET_NUM(json, "id", -1)))
        @@ (LocalvarSet("relay_remote_number") :>
               FormatLL(JSON_GET_NUM(json, "number", -1)))
        @@ (Prop("input_get_any_user_data") :> "1")

\* "remote.%s.%s" of the remote's name and the buffer's (a NULL string
\* is printed "(null)")
FullName(remote, name) ==
    <<"remote", remote, IF name = NULL THEN "(null)" ELSE name>>

\* relay_remote_event_cb_buffer: the buffers after the callback, and what it
\* returns
\* a buffer handler that sees the failed allocation of the properties only
\* after the buffer is searched and created
cb_buffer_fails_late(bufs, event, env) ==
    LET id == JSON_GET_NUM(event.json, "id", -1)
        name == JSON_GET_STR(event.json, "name")
        buffer_props == BufferProps(event)
        found == relay_remote_event_search_buffer(bufs, event.remote, id)
        bufs1 ==
            IF found # 0
            THEN [bufs EXCEPT ![found] =
                     relay_remote_event_apply_props(@, buffer_props)]
            ELSE IF env.buffer_new
            THEN Append(bufs,
                        weechat_buffer_new_props(
                            FullName(event.remote, name), buffer_props,
                            event.remote, env.genid))
            ELSE bufs
        ptr_buffer == IF found # 0 THEN found
                      ELSE IF env.buffer_new THEN Len(bufs) + 1 ELSE 0
        bufs2 == [bufs1 EXCEPT ![ptr_buffer] =
                     BindKeys(@,
                              ArrayItems(
                                  cJSON_GetObjectItem(event.json, "keys")),
                              env)]
        event_line == [remote |-> event.remote, name |-> NULL,
                       buffer |-> ptr_buffer, json |-> JNone]
        bufs3 == AddLines(bufs2, event_line,
                          ArrayItems(cJSON_GetObjectItem(event.json, "lines")),
                          env)
        json_nicklist_root == cJSON_GetObjectItem(event.json, "nicklist_root")
        bufs4 == IF cJSON_IsObject(json_nicklist_root)
                 THEN [bufs3 EXCEPT ![ptr_buffer].nicklist =
                          relay_remote_event_handle_nick_group(
                              @, json_nicklist_root, env)]
                 ELSE bufs3
    IN  IF ~env.hashtable_new
        THEN [bufs |-> bufs1, rc |-> WEECHAT_RC_ERROR]
        ELSE IF ptr_buffer = 0
        THEN [bufs |-> bufs1, rc |-> WEECHAT_RC_OK]
        ELSE [bufs |-> bufs4, rc |-> WEECHAT_RC_OK]

relay_remote_event_cb_buffer(bufs, event, env) ==
    LET id == JSON_GET_NUM(event.json, "id", -1)
        name == JSON_GET_STR(event.json, "name")
        buffer_props == BufferProps(event)
        found == relay_remote_event_search_buffer(bufs, event.remote, id)
        bufs1 ==
            IF found # 0
            THEN [bufs EXCEPT ![found] =
                     relay_remote_event_apply_props(@, buffer_props)]
            ELSE IF env.buffer_new
            THEN Append(bufs,
                        weechat_buffer_new_props(
                            FullName(event.remote, name), buffer_props,
                            event.remote, env.genid))
            ELSE bufs
        ptr_buffer == IF found # 0 THEN found
                      ELSE IF env.buffer_new THEN Len(bufs) + 1 ELSE 0
        bufs2 == [bufs1 EXCEPT ![ptr_buffer] =
                     BindKeys(@,
                              ArrayItems(
                                  cJSON_GetObjectItem(event.json, "keys")),
                              env)]
        event_line == [remote |-> event.remote, name |-> NULL,
                       buffer |-> ptr_buffer, json |-> JNone]
        bufs3 == AddLines(bufs2, event_line,
                          ArrayItems(cJSON_GetObjectItem(event.json, "lines")),
                          env)
        json_nicklist_root == cJSON_GetObjectItem(event.json, "nicklist_root")
        bufs4 == IF cJSON_IsObject(json_nicklist_root)
                 THEN [bufs3 EXCEPT ![ptr_buffer].nicklist =
                          relay_remote_event_handle_nick_group(
                              @, json_nicklist_root, env)]
                 ELSE bufs3
    IN  IF ~env.hashtable_new
        THEN [bufs |-> bufs, rc |-> WEECHAT_RC_ERROR]
        ELSE IF ptr_buffer = 0
        THEN [bufs |-> bufs1, rc |-> WEECHAT_RC_OK]
        ELSE [bufs |-> bufs4, rc |-> WEECHAT_RC_OK]

\* ---------------------------------------------------- callback "version"
\* relay_remote_event_cb_version: the line it prints
relay_remote_event_cb_version(event) ==
    [print |-> "version", remote |-> event.remote,
     weechat_version |-> JSON_GET_STR(event.json, "weechat_version"),
     weechat_version_git |-> JSON_GET_STR(event.json, "weechat_version_git"),
     relay_api_version |-> JSON_GET_STR(event.json, "relay_api_version")]

\* --------------------------------------------------------- sync request
\* what relay_remote_network_send_json is given
SyncRequest ==
    Obj([request |-> Str("POST /api/sync"),
         body |-> Obj([colors |-> Str("weechat")])])

\* a sync that sets the flag whether or not the request could be built and
\* sent
sync_flag_without_send(remote, is_synced, cjson) ==
    IF cjson < 2
    THEN [sent |-> <<>>, synced |-> TRUE]
    ELSE [sent |-> <<[to |-> remote, json |-> SyncRequest]>>,
          synced |-> TRUE]

\* a sync that sends the request and leaves the flag synced as it was
sync_without_flag(remote, is_synced, cjson) ==
    IF cjson < 2
    THEN [sent |-> <<>>, synced |-> is_synced]
    ELSE [sent |-> <<[to |-> remote, json |-> SyncRequest]>>,
          synced |-> is_synced]

\* relay_remote_event_sync_with_remote: the request sent and the flag, when
\* the two objects of the request are allocated (cjson: how many of the calls
\* of cJSON_CreateObject give an object)
relay_remote_event_sync_with_remote(remote, is_synced, cjson) ==
    IF cjson < 2
    THEN [sent |-> <<>>, synced |-> is_synced]
    ELSE [sent |-> <<[to |-> remote, json |-> SyncRequest]>>,
          synced |-> TRUE]

\* --------------------------------------------------------- input callback
InputRequest(buffer_id, input_data) ==
    Obj([request |-> Str("POST /api/input"),
         body |-> Obj([buffer_id |-> Num(buffer_id),
                       command |-> Str(input_data)])])

\* relay_remote_event_buffer_input_cb: what is sent to the remote the
\* callback was bound to
relay_remote_event_buffer_input_cb(bufs, pointer, buffer, input_data, cjson) ==
    LET buffer_id == relay_remote_event_get_buffer_id(bufs, buffer)
    IN  IF buffer_id < 0 THEN <<>>
        ELSE IF cjson < 2 THEN <<>>
        ELSE <<[to |-> pointer, json |-> InputRequest(buffer_id, input_data)]>>

\* ------------------------------------------------------------- dispatcher
\* what the transport hands to relay_remote_event_recv: no data, a text that
\* is no JSON, or the text of a JSON value
NoData == [data |-> "NULL"]
Garbage == [data |-> "garbage"]
Text(json) == [data |-> "json", json |-> json]

\* cJSON_Parse (data)
cJSON_Parse(data) == IF data.data = "json" THEN data.json ELSE JNone

\* the table event_cb of relay_remote_event_recv
EventCb == {"buffer", "line", "nick_group", "nick", "version"}

\* (callback) (&event): the buffers after it, what it returns and prints
Callback(body_type, bufs, event, env) ==
    CASE body_type = "buffer" ->
           Force(relay_remote_event_cb_buffer(bufs, event, env),
                 LAMBDA r : [bufs |-> r.bufs, rc |-> r.rc, printed |-> <<>>])
      [] body_type = "line" ->
           [bufs |-> relay_remote_event_cb_line(bufs, event, env),
            rc |-> WEECHAT_RC_OK, printed |-> <<>>]
      [] body_type = "nick_group" ->
           [bufs |-> relay_remote_event_cb_nick_group(bufs, event, env),
            rc |-> WEECHAT_RC_OK, printed |-> <<>>]
      [] body_type = "nick" ->
           [bufs |-> relay_remote_event_cb_nick(bufs, event, env),
            rc |-> WEECHAT_RC_OK, printed |-> <<>>]
      [] body_type = "version" ->
           [bufs |-> bufs, rc |-> WEECHAT_RC_OK,
            printed |-> <<relay_remote_event_cb_version(event)>>]

\* the event handed to the callback for one element of the body
EventFor(event, json_obj) == [event EXCEPT !.json = json_obj]

\* the call of the callback of "nick" on event is about to find no nick with
\* the id and no group to put a new one in (lines 247-252)
NickDropped(body_type, bufs, event) ==
    /\ body_type = "nick"
    /\ event.buffer # 0
    /\ event.name # "nicklist_nick_removing"
    /\ LET nicklist == bufs[event.buffer].nicklist
           id == JSON_GET_NUM(event.json, "id", -1)
           parent_group_id == JSON_GET_NUM(event.json, "parent_group_id", -1)
       IN  /\ weechat_nicklist_search_nick(nicklist, IdKey(id)) = 0
           /\ \/ parent_group_id < 0
              \/ weechat_nicklist_search_group(
                     nicklist, IdKey(parent_group_id)) = 0

\* a loop over the elements that ends at the first call that fails
RECURSIVE RunCallbacksUntilError(_, _, _, _, _)
RunCallbacksUntilError(st, body_type, event, items, envs) ==
    IF items = <<>> \/ (st.calls # <<>> /\ st.rc = WEECHAT_RC_ERROR) THEN st
    ELSE LET ev == EventFor(event, Head(items))
         IN  Force(Callback(body_type, st.bufs, ev, Head(envs)),
                   LAMBDA r :
                     RunCallbacksUntilError(
                       [bufs |-> r.bufs, rc |-> r.rc,
                        printed |-> st.printed \o r.printed,
                        calls |-> Append(st.calls,
                                         [event |-> ev, rc |-> r.rc,
                                          dropped |-> NickDropped(
                                              body_type, st.bufs, ev)])],
                       body_type, event, Tail(items), Tail(envs)))

\* lines 725-737: the callback on every element, in order; st holds the
\* buffers, rc, what was printed and the calls made so far
RECURSIVE RunCallbacks(_, _, _, _, _)
RunCallbacks(st, body_type, event, items, envs) ==
    IF items = <<>> THEN st
    ELSE LET ev == EventFor(event, Head(items))
         IN  Force(Callback(body_type, st.bufs, ev, Head(envs)),
                   LAMBDA r :
                     RunCallbacks(
                       [bufs |-> r.bufs, rc |-> r.rc,
                        printed |-> st.printed \o r.printed,
                        calls |-> Append(st.calls,
                                         [event |-> ev, rc |-> r.rc,
                                          dropped |-> NickDropped(
                                              body_type, st.bufs, ev)])],
                       body_type, event, Tail(items), Tail(envs)))

\* the elements the callback is called on: those of an array, else the body
BodyItems(json_body) ==
    IF cJSON_IsArray(json_body) THEN json_body.a ELSE <<json_body>>

\* the number of calls of the callback a message leads to
NCalls(data) ==
    LET json == cJSON_Parse(data)
    IN  IF JSON_GET_STR(json, "body_type") \in EventCb
        THEN Len(BodyItems(cJSON_GetObjectItem(json, "body")))
        ELSE 0

\* lines 705-711: the event of the message, with the buffer its buffer_id
\* names, searched once
recv_event(bufs, remote, json_event) ==
    IF cJSON_IsObject(json_event)
    THEN [remote |-> remote,
          name |-> JSON_GET_STR(json_event, "name"),
          buffer |-> relay_remote_event_search_buffer(
                         bufs, remote,
                         JSON_GET_NUM(json_event, "buffer_id", -1)),
          json |-> JNone]
    ELSE [remote |-> remote, name |-> NULL, buffer |-> 0, json |-> JNone]

\* an end of the dispatch that tries the sync after a failed callback too
recv_finish_always_syncs(st, is_synced, remote, code, body_type, data, cjson) ==
    IF ~is_synced /\ code = 200 /\ body_type = "buffer"
    THEN Force(relay_remote_event_sync_with_remote(remote, is_synced, cjson),
               LAMBDA sync :
                 [bufs |-> st.bufs, synced |-> sync.synced,
                  sent |-> sync.sent,
                  printed |-> st.printed
                      \o (IF st.rc = WEECHAT_RC_ERROR
                          THEN <<[print |-> "callback failed",
                                  remote |-> body_type, body_type |-> data]>>
                          ELSE <<>>),
                  calls |-> st.calls])
    ELSE [bufs |-> st.bufs, synced |-> is_synced, sent |-> <<>>,
          printed |-> st.printed
              \o (IF st.rc = WEECHAT_RC_ERROR
                  THEN <<[print |-> "callback failed",
                          remote |-> body_type, body_type |-> data]>>
                  ELSE <<>>),
          calls |-> st.calls]

\* lines 739-745 and 755-761: after the calls (st: the buffers, the last rc,
\* what was printed, the calls), the error of the callback or the sync
recv_finish(st, is_synced, remote, code, body_type, data, cjson) ==
    IF st.rc = WEECHAT_RC_ERROR
    THEN [bufs |-> st.bufs, synced |-> is_synced, sent |-> <<>>,
          printed |-> st.printed
              \o <<[print |-> "callback failed", remote |-> body_type,
                    body_type |-> data]>>,
          calls |-> st.calls]
    ELSE IF ~is_synced /\ code = 200 /\ body_type = "buffer"
    THEN Force(relay_remote_event_sync_with_remote(remote, is_synced, cjson),
               LAMBDA sync :
                 [bufs |-> st.bufs, synced |-> sync.synced,
                  sent |-> sync.sent, printed |-> st.printed,
                  calls |-> st.calls])
    ELSE [bufs |-> st.bufs, synced |-> is_synced, sent |-> <<>>,
          printed |-> st.printed, calls |-> st.calls]

\* a dispatcher that takes a body type it has no callback for as invalid data
recv_unknown_type_is_invalid(bufs, is_synced, remote, data, env) ==
    LET json == cJSON_Parse(data)
        code == JSON_GET_NUM(json, "code", -1)
        body_type == JSON_GET_STR(json, "body_type")
        json_event == cJSON_GetObjectItem(json, "event")
        json_body == cJSON_GetObjectItem(json, "body")
        debug == IF env.debug >= 2
                 THEN <<[print |-> "recv", remote |-> remote, data |-> data]>>
                 ELSE <<>>
        nothing == [bufs |-> bufs, synced |-> is_synced, sent |-> <<>>,
                    printed |-> debug, calls |-> <<>>]
        error_data ==
            [nothing EXCEPT !.printed =
                debug \o <<[print |-> "invalid data", remote |-> remote,
                            data |-> data]>>]
        finish(st) == recv_finish(st, is_synced, remote, code, body_type,
                                  data, env.cjson)
    IN  IF data = NoData THEN [nothing EXCEPT !.printed = <<>>]
        ELSE IF json = JNone THEN error_data
        ELSE IF body_type = NULL
        THEN IF code = 200 \/ code = 204 THEN nothing ELSE error_data
        ELSE IF body_type \notin EventCb THEN error_data
        ELSE Force(RunCallbacks(
                       [bufs |-> bufs, rc |-> env.rc, printed |-> debug,
                        calls |-> <<>>],
                       body_type, recv_event(bufs, remote, json_event),
                       BodyItems(json_body), env.calls),
                   finish)

\* a dispatcher that takes every message without a body type as an
\* acknowledgment, whatever its code
recv_no_body_type_is_ack(bufs, is_synced, remote, data, env) ==
    LET json == cJSON_Parse(data)
        code == JSON_GET_NUM(json, "code", -1)
        body_type == JSON_GET_STR(json, "body_type")
        json_event == cJSON_GetObjectItem(json, "event")
        json_body == cJSON_GetObjectItem(json, "body")
        debug == IF env.debug >= 2
                 THEN <<[print |-> "recv", remote |-> remote, data |-> data]>>
                 ELSE <<>>
        nothing == [bufs |-> bufs, synced |-> is_synced, sent |-> <<>>,
                    printed |-> debug, calls |-> <<>>]
        error_data ==
            [nothing EXCEPT !.printed =
                debug \o <<[print |-> "invalid data", remote |-> remote,
                            data |-> data]>>]
        finish(st) == recv_finish(st, is_synced, remote, code, body_type,
                                  data, env.cjson)
    IN  IF data = NoData THEN [nothing EXCEPT !.printed = <<>>]
        ELSE IF json = JNone THEN error_data
        ELSE IF body_type = NULL
        THEN nothing
        ELSE IF body_type \notin EventCb THEN nothing
        ELSE Force(RunCallbacks(
                       [bufs |-> bufs, rc |-> env.rc, printed |-> debug,
                        calls |-> <<>>],
                       body_type, recv_event(bufs, remote, json_event),
                       BodyItems(json_body), env.calls),
                   finish)

(* relay_remote_event_recv.  env holds
     debug   weechat_relay_plugin->debug
     rc      the value the variable rc starts with (it is not initialized)
     cjson   how many calls of cJSON_CreateObject give an object
     calls   the environment of each call of the callback
   The result: the buffers, the flag synced of the remote, what was sent,
   what was printed and the calls made. *)
relay_remote_event_recv(bufs, is_synced, remote, data, env) ==
    LET json == cJSON_Parse(data)
        code == JSON_GET_NUM(json, "code", -1)
        body_type == JSON_GET_STR(json, "body_type")
        json_event == cJSON_GetObjectItem(json, "event")
        json_body == cJSON_GetObjectItem(json, "body")
        debug == IF env.debug >= 2
                 THEN <<[print |-> "recv", remote |-> remote, data |-> data]>>
                 ELSE <<>>
        nothing == [bufs |-> bufs, synced |-> is_synced, sent |-> <<>>,
                    printed |-> debug, calls |-> <<>>]
        error_data ==
            [nothing EXCEPT !.printed =
                debug \o <<[print |-> "invalid data", remote |-> remote,
                            data |-> data]>>]
        finish(st) == recv_finish(st, is_synced, remote, code, body_type,
                                  data, env.cjson)
    IN  IF data = NoData THEN [nothing EXCEPT !.printed = <<>>]
        ELSE IF json = JNone THEN error_data
        ELSE IF body_type = NULL
        THEN IF code = 200 \/ code = 204 THEN nothing ELSE error_data
        ELSE IF body_type \notin EventCb THEN nothing
        ELSE Force(RunCallbacks(
                       [bufs |-> bufs, rc |-> env.rc, printed |-> debug,
                        calls |-> <<>>],
                       body_type, recv_event(bufs, remote, json_event),
                       BodyItems(json_body), env.calls),
                   finish)

\* ------------------------------------------------------------------ state
(* synced    the flag synced of each remote
   buffers   the list gui_buffers of the store
   nsync     how many sync requests were sent to each remote
   delivered the pairs <<remote, id>> of the buffer events handed to the
             callback of "buffer" so far
   dropped   the nicks (JSON objects) that the callback of "nick" has
             dropped so far for want of their parent group
   failed    the remotes for which the dispatch of a message with code 200
             and body type "buffer" has ended in the error of the callback
             while they were not synced
   pc        "idle" between two operations, "done" when one has returned
   last      the operation that has just returned: what it was given and
             what it sent, printed and called
   pre       the flags and buffers it started from *)
\* the number of lines of all buffers
RECURSIVE TotalLines(_)
TotalLines(bufs) ==
    IF bufs = <<>> THEN 0 ELSE Len(Head(bufs).lines) + TotalLines(Tail(bufs))

VARIABLES synced, buffers, nsync, delivered, dropped, failed, pc, last, pre

vars == <<synced, buffers, nsync, delivered, dropped, failed, pc, last, pre>>

Remotes == {"A", "B"}

NoOp == [op |-> "none"]

\* the flags, the buffers and the ghost counters as they are now
Snapshot ==
    [synced |-> synced, buffers |-> buffers, nsync |-> nsync,
     delivered |-> delivered, dropped |-> dropped, failed |-> failed]

\* the pairs <<remote, id>> of the buffer events among the calls made for data
BufferIds(remote, data, calls) ==
    IF JSON_GET_STR(cJSON_Parse(data), "body_type") = "buffer"
    THEN {<<remote, JSON_GET_NUM(calls[i].event.json, "id", -1)>> :
             i \in DOMAIN calls}
    ELSE {}

\* the nicks dropped among the calls
DroppedNicks(calls) ==
    {calls[i].event.json : i \in {j \in DOMAIN calls : calls[j].dropped}}

\* the remote when it is not synced, data has code 200 and body type
\* "buffer", and the error of the callback is among what was printed
FailedSync(remote, data, printed) ==
    IF /\ ~synced[remote]
       /\ JSON_GET_NUM(cJSON_Parse(data), "code", -1) = 200
       /\ JSON_GET_STR(cJSON_Parse(data), "body_type") = "buffer"
       /\ \E i \in DOMAIN printed : printed[i].print = "callback failed"
    THEN {remote} ELSE {}

\* the transport hands data of remote to relay_remote_event_recv
Recv(remote, data, env) ==
    /\ pc = "idle"
    /\ \E r \in {relay_remote_event_recv(buffers, synced[remote], remote,
                                         data, env)} :
        /\ Len(r.bufs) <= MaxBuffers
        /\ TotalLines(r.bufs) <= MaxLines
        /\ buffers' = r.bufs
        /\ synced' = [synced EXCEPT ![remote] = r.synced]
        /\ nsync' = [nsync EXCEPT ![remote] = @ + Len(r.sent)]
        /\ delivered' = delivered \cup BufferIds(remote, data, r.calls)
        /\ dropped' = dropped \cup DroppedNicks(r.calls)
        /\ failed' = failed \cup FailedSync(remote, data, r.printed)
        /\ pc' = "done"
        /\ last' = [op |-> "recv", remote |-> remote, data |-> data,
                    env |-> env, sent |-> r.sent, printed |-> r.printed,
                    calls |-> r.calls]
        /\ pre' = Snapshot

\* the store calls the input callback of a buffer with what the user typed
Input(buffer, input_data, cjson) ==
    LET sent == relay_remote_event_buffer_input_cb(
                    buffers, buffers[buffer].input_cb, buffer, input_data,
                    cjson)
    IN  /\ pc = "idle"
        /\ buffer \in 1..Len(buffers)
        /\ buffers[buffer].input_cb # NULL
        /\ pc' = "done"
        /\ last' = [op |-> "input", buffer |-> buffer,
                    input_data |-> input_data, cjson |-> cjson,
                    sent |-> sent]
        /\ pre' = Snapshot
        /\ UNCHANGED <<synced, buffers, nsync, delivered, dropped, failed>>

\* the operation has returned to the main loop
Return ==
    /\ pc = "done"
    /\ pc' = "idle"
    /\ last' = NoOp
    /\ pre' = Snapshot
    /\ UNCHANGED <<synced, buffers, nsync, delivered, dropped, failed>>

\* --------------------------------------------------------------- messages
\* the sequences over S of length 0..n
SeqsUpTo(S, n) == UNION {[1..k -> S] : k \in 0..n}

\* one field of a JSON object, none when the value is absent
Field(name, value) == IF value = JNone THEN <<>> ELSE (name :> value)

\* the text of a message with the fields given (JNone: the field is absent)
Envelope(code, body_type, event, body) ==
    Text(Obj(Field("code", code) @@ Field("body_type", body_type)
             @@ Field("event", event) @@ Field("body", body)))

\* the object "event" of a message
EventObj(name, buffer_id) ==
    Obj([name |-> Str(name), buffer_id |-> Num(buffer_id)])

\* a buffer as the remote describes it
BufferObj(id, name, short_name) ==
    Obj([id |-> Num(id), name |-> Str(name), short_name |-> Str(short_name),
         number |-> Num(1), type |-> Str("formatted"), title |-> Str("t"),
         nicklist |-> JTrue, nicklist_case_sensitive |-> JFalse,
         nicklist_display_groups |-> JTrue])

\* the bodies made of the objects of S: one object, no body, or an array
Bodies(S) == S \cup {JNone} \cup {Arr(q) : q \in SeqsUpTo(S, MaxBatch)}

\* the environments of relay_remote_event_recv for a message: the start value
\* of rc is read only when no call is made, the objects of the sync request
\* are allocated only for a message with code 200 and body type "buffer";
\* the debug message is printed or not for the messages that lead to no call
RecvEnvs(data, callenvs) ==
    LET json == cJSON_Parse(data)
    IN  [debug : IF NCalls(data) = 0 THEN {0, 2} ELSE {0},
         rc : IF NCalls(data) = 0 /\ JSON_GET_STR(json, "body_type") \in EventCb
              THEN {WEECHAT_RC_OK, WEECHAT_RC_ERROR} ELSE {WEECHAT_RC_OK},
         cjson : IF /\ JSON_GET_NUM(json, "code", -1) = 200
                    /\ JSON_GET_STR(json, "body_type") = "buffer"
                 THEN {0, 1, 2} ELSE {2},
         calls : [1..NCalls(data) -> callenvs]]

\* ------------------------------------------------- specification Spec
\* the dispatcher: one remote, messages of every kind, bodies that are one
\* object, absent, or an array of 0..MaxBatch objects; the events of the
\* groups name buffer 0, those of the lines and nicks a buffer that is unknown
CallEnvs == {EnvOk(0), [EnvOk(0) EXCEPT !.hashtable_new = FALSE]}

BufferItems == {BufferObj(0, "x", "s"), BufferObj(12, "y", "s")}

LineObj == Obj([message |-> Str("hi")])
NickObj == Obj([id |-> Num(1), parent_group_id |-> Num(5), name |-> Str("n")])
GroupObj == Obj([id |-> Num(0), color_name |-> Str("red"), visible |-> JTrue])
VersionObj == Obj([weechat_version |-> Str("4.3.0")])

Messages ==
    {NoData, Garbage, Text(Num(5))}
    \cup {Envelope(code, body_type, JNone, BufferObj(0, "x", "s")) :
            code \in {JNone, Num(200), Num(204), Num(404)},
            body_type \in {JNone, Num(1)}}
    \cup {Envelope(code, Str("future_feature"), event, body) :
            code \in {JNone, Num(200), Num(404)},
            event \in {JNone, EventObj("buffer_opened", 0)},
            body \in {BufferObj(0, "x", "s"), Arr(<<BufferObj(0, "x", "s")>>)}}
    \cup {Envelope(code, Str("buffer"), event, body) :
            code \in {Num(200), Num(404)},
            event \in {JNone, EventObj("buffer_opened", 0)},
            body \in Bodies(BufferItems) \ {JNone}}
    \cup {Envelope(Num(200), Str("line"), EventObj("buffer_line_added", 99),
                   body) : body \in Bodies({LineObj})}
    \cup {Envelope(Num(200), Str("nick"), EventObj("nicklist_nick_added", 99),
                   body) : body \in Bodies({NickObj})}
    \cup {Envelope(Num(200), Str("nick_group"),
                   EventObj("nicklist_group_changed", 0), body) :
            body \in Bodies({GroupObj})}
    \cup {Envelope(Num(200), Str("version"), JNone, body) :
            body \in Bodies({VersionObj})}

RecvAny ==
    \E data \in Messages :
        \E env \in RecvEnvs(data, CallEnvs) : Recv("A", data, env)

Next == RecvAny \/ Return

\* ---------------------------------------------- specification SpecBuf
\* buffer events and user input: two remotes, messages whose body is one
\* buffer, with an id that is >= 0 or absent (read as -1); the store may refuse
\* to make a buffer; the sync request is always allocated.  Remote "B" is
\* there for the conversations of one remote to meet those of another: it
\* delivers one buffer, whose id remote "A" delivers too
BufCallEnvs == CallEnvs \cup {[EnvOk(0) EXCEPT !.buffer_new = FALSE]}

BufPayloads ==
    {BufferObj(0, "x", "s"), BufferObj(0, "x2", "s2"), BufferObj(12, "y", "s"),
     Obj([name |-> Str("z")])}

BufMessages ==
    {Envelope(Num(200), Str("buffer"), JNone, body) : body \in BufPayloads}

Inputs == {"hello"}

BufMessagesOf(remote) ==
    IF remote = "A" THEN BufMessages
    ELSE {Envelope(Num(200), Str("buffer"), JNone, BufferObj(0, "x", "s"))}

RecvBuffer ==
    \E remote \in Remotes :
      \E data \in BufMessagesOf(remote) :
        \E env \in {e \in RecvEnvs(data, BufCallEnvs) : e.cjson = 2} :
            Recv(remote, data, env)

InputAny ==
    \E buffer \in 1..MaxBuffers, input_data \in Inputs, cjson \in 0..2 :
        Input(buffer, input_data, cjson)

NextBuf == RecvBuffer \/ InputAny \/ Return

\* --------------------------------------------- specification SpecNick
\* the nicklist of one buffer of one remote: nicks and groups that come with
\* or without their parent, are refused by the store or not, and are removed
NickCallEnvs ==
    {[EnvOk(0) EXCEPT !.add_nick = nicks, !.add_group = groups] :
        nicks \in {{}, {1}}, groups \in {{}, {5}}}

\* a nick or a group as the remote describes it
NickItem(id, parent_group_id, name) ==
    Obj([id |-> Num(id), parent_group_id |-> Num(parent_group_id),
         name |-> Str(name), color_name |-> Str("blue"), visible |-> JTrue])

\* a group with a subgroup and a nick of its own
GroupTree(id, parent_group_id, name) ==
    Obj(NickItem(id, parent_group_id, name).o
        @@ [groups |-> Arr(<<NickItem(8, 0, "sub")>>),
            nicks |-> Arr(<<NickItem(3, 0, "child")>>)])

NickEvents ==
    {<<"nick", "nicklist_nick_added", NickItem(1, 5, "n")>>,
     <<"nick", "nicklist_nick_added", NickItem(2, -1, "m")>>,
     <<"nick", "nicklist_nick_removing", NickItem(1, 5, "n")>>,
     <<"nick_group", "nicklist_group_added", NickItem(5, 0, "g")>>,
     <<"nick_group", "nicklist_group_added", NickItem(-1, 0, "h")>>,
     <<"nick_group", "nicklist_group_added", GroupTree(9, 6, "k")>>,
     <<"nick_group", "nicklist_group_removing", NickItem(5, 0, "g")>>}

NickMessages ==
    {Envelope(Num(200), Str("buffer"), JNone, BufferObj(0, "x", "s"))}
    \cup {Envelope(Num(200), Str(e[1]), EventObj(e[2], 0), e[3]) :
            e \in NickEvents}

RecvNick ==
    \E data \in NickMessages :
        \E env \in {e \in RecvEnvs(data, NickCallEnvs) : e.cjson = 2} :
            Recv("A", data, env)

NextNick == RecvNick \/ Return

\* --------------------------------------------- specification SpecTree
\* the groups of one buffer of one remote, as trees: a group with subgroups
\* and nicks, a subgroup that comes before its parent, a group whose parent
\* is unknown, negative or absent, the root; the store may refuse a group or
\* a nick
TreeCallEnvs ==
    {EnvOk(0), [EnvOk(0) EXCEPT !.add_group = {8}, !.add_nick = {3}]}

\* a group with its subgroups and its nicks
TreeNode(id, parent_group_id, name, groups, nicks) ==
    Obj(NickItem(id, parent_group_id, name).o
        @@ [groups |-> Arr(groups), nicks |-> Arr(nicks)])

TreePayloads ==
    {TreeNode(5, 0, "g", <<TreeNode(8, 5, "sub", <<>>, <<>>)>>,
              <<NickItem(3, 8, "child"), NickItem(1, 5, "n")>>),
     TreeNode(5, 0, "g", <<NickItem(8, 6, "sub"), NickItem(6, 5, "late")>>,
              <<>>),
     TreeNode(9, 7, "k", <<NickItem(6, 0, "late")>>, <<NickItem(1, 0, "n")>>),
     TreeNode(7, -1, "r", <<NickItem(6, 0, "late")>>, <<>>),
     Obj([id |-> Num(4), name |-> Str("top"),
          nicks |-> Arr(<<NickItem(1, 0, "n")>>)]),
     NickItem(-1, 0, "h"),
     Obj([id |-> Num(0), color_name |-> Str("red"),
          groups |-> Arr(<<NickItem(7, 0, "r")>>)])}

TreeMessages ==
    {Envelope(Num(200), Str("buffer"), JNone, BufferObj(0, "x", "s")),
     Envelope(Num(200), Str("buffer"), JNone,
              Obj(BufferObj(0, "x", "s").o
                  @@ [nicklist_root |->
                        Obj([id |-> Num(0),
                             groups |-> Arr(<<NickItem(5, 0, "g")>>)])])),
     Envelope(Num(200), Str("nick_group"),
              EventObj("nicklist_group_removing", 0), NickItem(5, 0, "g"))}
    \cup {Envelope(Num(200), Str("nick_group"),
                   EventObj("nicklist_group_changed", 0), body) :
            body \in TreePayloads}

RecvTree ==
    \E data \in TreeMessages :
        \E env \in {e \in RecvEnvs(data, TreeCallEnvs) : e.cjson = 2} :
            Recv("A", data, env)

NextTree == RecvTree \/ Return

\* --------------------------------------------- specification SpecLine
\* the lines of one buffer of one remote: lines with and without a row y and
\* tags, alone or in an array, in a line event or in the array "lines" of a
\* buffer; the string of the tags may not be allocated
LineCallEnvs == {EnvOk(0), [EnvOk(0) EXCEPT !.string_dyn_alloc = FALSE]}

\* a line as the remote describes it
LineItem(y, tags) ==
    Obj(Field("y", y) @@ Field("tags", tags)
        @@ [date |-> Str("2024-01-02T03:04:05.000006Z"),
            prefix |-> Str("nick"), message |-> Str("hi")])

TagArrays ==
    {Arr(<<>>), Arr(<<Str("joined"), Str("notify")>>),
     Arr(<<Str(""), Str("b")>>), Arr(<<Str("a"), Str(""), Str("b")>>),
     Arr(<<Str("a"), Num(1)>>)}

LinePayloads ==
    {LineItem(y, JNone) :
        y \in {JNone, Num(-1), Num(0), Num(3), Str("2"), NumHalf(TRUE, 0),
               NumHalf(FALSE, 1)}}
    \cup {LineItem(JNone, tags) : tags \in TagArrays \cup {Str("x")}}
    \cup {Obj([date |-> Str("yesterday"), prefix |-> Str(""),
               message |-> Str("hi")])}

\* the lines that come in arrays
BatchPayloads ==
    {LineItem(Num(3), JNone),
     LineItem(JNone, Arr(<<Str("joined"), Str("notify")>>))}

LineBodies ==
    LinePayloads \cup {Arr(q) : q \in SeqsUpTo(BatchPayloads, MaxBatch)}

LineMessages ==
    {Envelope(Num(200), Str("buffer"), JNone, BufferObj(0, "x", "s")),
     Envelope(Num(200), Str("buffer"), JNone,
              Obj(BufferObj(0, "x", "s").o
                  @@ [lines |-> Arr(<<LineItem(Num(3), JNone)>>)]))}
    \cup {Envelope(Num(200), Str("line"), EventObj("buffer_line_added", 0),
                   body) : body \in LineBodies}

RecvLine ==
    \E data \in LineMessages :
        \E env \in {e \in RecvEnvs(data, LineCallEnvs) : e.cjson = 2} :
            Recv("A", data, env)

NextLine == RecvLine \/ Return

\* -------------------------------------------- specification SpecWhole
\* the buffers of one remote as the answer to the sync request brings them:
\* alone or in an array, bare or with keys, lines and the root of the
\* nicklist; the properties may fail to be allocated and the store may
\* refuse to make a buffer
WholeCallEnvs ==
    {EnvOk(0), [EnvOk(0) EXCEPT !.hashtable_new = FALSE],
     [EnvOk(0) EXCEPT !.buffer_new = FALSE]}

\* a buffer with a key, a line and the root of its nicklist
WholeBuffer(id, name, short_name, key) ==
    Obj(BufferObj(id, name, short_name).o
        @@ [keys |-> Arr(<<Obj([key |-> Str(key),
                                command |-> Str("/cmd")])>>),
            lines |-> Arr(<<LineItem(JNone, JNone)>>),
            nicklist_root |->
                Obj([id |-> Num(0), color_name |-> Str("red"),
                     groups |-> Arr(<<NickItem(5, 0, "g")>>),
                     nicks |-> Arr(<<NickItem(1, 5, "n")>>)])])

WholePayloads ==
    {BufferObj(0, "x", "s"), WholeBuffer(0, "x", "s2", "k"),
     WholeBuffer(12, "y", "s", "k2")}

WholeMessages ==
    {Envelope(Num(200), Str("buffer"), JNone, body) :
        body \in WholePayloads
                 \cup {Arr(q) : q \in SeqsUpTo(WholePayloads, MaxBatch)}}

RecvWhole ==
    \E data \in WholeMessages :
        \E env \in {e \in RecvEnvs(data, WholeCallEnvs) : e.cjson = 2} :
            Recv("A", data, env)

NextWhole == RecvWhole \/ Return

\* -------------------------------------------- specification SpecEvent
\* the events of one remote with two buffers (0 and 12): groups, nicks and
\* lines that are added, changed and removed, a nick and a group with the
\* same id, events that name buffer 0, buffer 12, a buffer that is unknown
\* (99), a negative buffer or none, and messages without event
EventCallEnvs == {EnvOk(0)}

\* what a message of an event may say of its buffer: nothing at all (no
\* event), no buffer_id, a negative one, one that is unknown
Nowhere(name) ==
    {JNone, Obj([name |-> Str(name)]), EventObj(name, -1), EventObj(name, 99)}

\* nick 5 as an event that changes it describes it: every field differs
NickChanged ==
    Obj([id |-> Num(5), parent_group_id |-> Num(0), name |-> Str("n2"),
         color_name |-> Str("red"), prefix |-> Str("@"),
         prefix_color_name |-> Str("green"), visible |-> JFalse])

OnlyId(id) == Obj([id |-> Num(id)])

\* body type, name of the event, body: the events of buffer 0
EventsHere ==
    {<<"nick_group", "nicklist_group_added", NickItem(5, 0, "g")>>,
     <<"nick_group", "nicklist_group_added", NickItem(6, 5, "sub")>>,
     <<"nick_group", "nicklist_group_removing", OnlyId(5)>>,
     <<"nick_group", "nicklist_group_removing", OnlyId(7)>>,
     <<"nick", "nicklist_nick_added", NickItem(5, 5, "n")>>,
     <<"nick", "nicklist_nick_added", NickItem(1, 0, "m")>>,
     <<"nick", "nicklist_nick_changed", NickChanged>>,
     <<"nick", "nicklist_nick_removing", OnlyId(5)>>,
     <<"nick", "nicklist_nick_removing", OnlyId(7)>>,
     <<"line", "buffer_line_added", LineItem(JNone, JNone)>>}

\* the events of buffer 12
EventsThere ==
    {<<"nick_group", "nicklist_group_added", NickItem(5, 0, "g")>>,
     <<"nick", "nicklist_nick_added", NickItem(5, 5, "n")>>}

\* the events of no buffer
EventsNowhere ==
    {<<"nick_group", "nicklist_group_added", NickItem(5, 0, "g")>>,
     <<"nick_group", "nicklist_group_removing", OnlyId(5)>>,
     <<"nick", "nicklist_nick_added", NickItem(1, 0, "m")>>,
     <<"nick", "nicklist_nick_removing", OnlyId(5)>>,
     <<"line", "buffer_line_added", LineItem(JNone, JNone)>>,
     <<"line", "buffer_line_added",
       Arr(<<LineItem(JNone, JNone), LineItem(Num(0), JNone)>>)>>,
     <<"line", "buffer_line_added", Arr(<<>>)>>,
     <<"nick", "nicklist_nick_added", JNone>>}

EventMessages ==
    {Envelope(Num(200), Str("buffer"), JNone, BufferObj(0, "x", "s")),
     Envelope(Num(200), Str("buffer"), JNone, BufferObj(12, "y", "s"))}
    \cup {Envelope(Num(200), Str(e[1]), EventObj(e[2], 0), e[3]) :
            e \in EventsHere}
    \cup {Envelope(Num(200), Str(e[1]), EventObj(e[2], 12), e[3]) :
            e \in EventsThere}
    \cup UNION {{Envelope(Num(200), Str(e[1]), event, e[3]) :
                    event \in Nowhere(e[2])} : e \in EventsNowhere}

RecvEvent ==
    \E data \in EventMessages :
        \E env \in {e \in RecvEnvs(data, EventCallEnvs) : e.cjson = 2} :
            Recv("A", data, env)

NextEvent == RecvEvent \/ Return

\* -------------------------------------------- specification SpecCross
\* two remotes that use the same buffer id (0): each delivers its buffer and
\* events of groups, nicks and lines for it; remote "A" delivers also a
\* buffer without id (read as -1) and events that name a negative buffer,
\* no buffer, or have no event object
CrossCallEnvs == {EnvOk(0)}

CrossEvents ==
    {<<"nick_group", "nicklist_group_added", NickItem(5, 0, "g")>>,
     <<"nick", "nicklist_nick_added", NickItem(1, 0, "m")>>,
     <<"line", "buffer_line_added", LineItem(JNone, JNone)>>}

CrossMessagesOf(remote) ==
    {Envelope(Num(200), Str("buffer"), JNone, BufferObj(0, "x", "s"))}
    \cup {Envelope(Num(200), Str(e[1]), EventObj(e[2], 0), e[3]) :
            e \in CrossEvents}
    \cup (IF remote = "A"
          THEN {Envelope(Num(200), Str("buffer"), JNone,
                         BufferObj(0, "x", "s2")),
                Envelope(Num(200), Str("buffer"), JNone,
                         Obj([name |-> Str("z")]))}
               \cup UNION {{Envelope(Num(200), Str(e[1]), event, e[3]) :
                               event \in Nowhere(e[2]) \ {EventObj(e[2], 99)}} :
                           e \in CrossEvents}
          ELSE {})

CrossMessages == UNION {CrossMessagesOf(remote) : remote \in Remotes}

RecvCross ==
    \E remote \in Remotes :
      \E data \in CrossMessagesOf(remote) :
        \E env \in {e \in RecvEnvs(data, CrossCallEnvs) : e.cjson = 2} :
            Recv(remote, data, env)

NextCross == RecvCross \/ Return

\* ---------------------------------------------- specification SpecRow
\* the lines of two buffers of one remote over several dispatches: lines
\* that are appended, lines for a row that holds a line already, with the
\* same text and with another one, alone, in an array and in the array
\* "lines" of a buffer that exists; buffers that are delivered again
RowCallEnvs == {EnvOk(0)}

\* a line with the row and the text given
RowItem(y, date, prefix, message) ==
    Obj(Field("y", y)
        @@ [date |-> Str(date), prefix |-> Str(prefix),
            message |-> Str(message)])

RowPayloads ==
    {RowItem(JNone, "2024-01-02T03:04:05.000006Z", "nick", "hi"),
     RowItem(Num(0), "2024-01-02T03:04:05.000006Z", "nick", "hi"),
     RowItem(Num(0), "2024-01-02T03:04:06.000000Z", "", "new"),
     RowItem(Num(1), "2024-01-02T03:04:05.000006Z", "nick", "hi")}

RowMessages ==
    {Envelope(Num(200), Str("buffer"), JNone, BufferObj(0, "x", "s")),
     Envelope(Num(200), Str("buffer"), JNone, BufferObj(0, "x", "s2")),
     Envelope(Num(200), Str("buffer"), JNone, BufferObj(12, "y", "s")),
     Envelope(Num(200), Str("buffer"), JNone,
              Obj(BufferObj(0, "x", "s").o
                  @@ [lines |-> Arr(<<RowItem(
                          Num(0), "2024-01-02T03:04:07.000000Z", "",
                          "again")>>)]))}
    \cup {Envelope(Num(200), Str("line"),
                   EventObj("buffer_line_added", buffer_id), body) :
            buffer_id \in {0, 12},
            body \in RowPayloads
                     \cup {Arr(q) : q \in SeqsUpTo(RowPayloads, MaxBatch)}}

RecvRow ==
    \E data \in RowMessages :
        \E env \in {e \in RecvEnvs(data, RowCallEnvs) : e.cjson = 2} :
            Recv("A", data, env)

NextRow == RecvRow \/ Return

\* ------------------------------------------------------------- behaviours
\* the inputs and the outcomes of the calls are fixed values; comparing each
\* set with itself puts its elements in normal form once, in the first state
InputsFixed ==
    /\ Messages = Messages
    /\ BufMessages = BufMessages
    /\ NickMessages = NickMessages
    /\ CallEnvs = CallEnvs
    /\ BufCallEnvs = BufCallEnvs
    /\ NickCallEnvs = NickCallEnvs
    /\ LineMessages = LineMessages
    /\ TreeMessages = TreeMessages
    /\ TreeCallEnvs = TreeCallEnvs
    /\ WholeMessages = WholeMessages
    /\ WholeCallEnvs = WholeCallEnvs
    /\ EventMessages = EventMessages
    /\ EventCallEnvs = EventCallEnvs
    /\ CrossMessages = CrossMessages
    /\ CrossCallEnvs = CrossCallEnvs
    /\ RowMessages = RowMessages
    /\ RowCallEnvs = RowCallEnvs
    /\ LineCallEnvs = LineCallEnvs

\* no remote is synced and the store holds the buffer of the host
Init ==
    /\ InputsFixed
    /\ synced = [r \in Remotes |-> FALSE]
    /\ buffers = <<CoreBuffer>>
    /\ nsync = [r \in Remotes |-> 0]
    /\ delivered = {}
    /\ dropped = {}
    /\ failed = {}
    /\ pc = "idle"
    /\ last = NoOp
    /\ pre = Snapshot

Spec == Init /\ [][Next]_vars

SpecBuf == Init /\ [][NextBuf]_vars

SpecNick == Init /\ [][NextNick]_vars

SpecLine == Init /\ [][NextLine]_vars

SpecTree == Init /\ [][NextTree]_vars
SpecWhole == Init /\ [][NextWhole]_vars
SpecEvent == Init /\ [][NextEvent]_vars
SpecCross == Init /\ [][NextCross]_vars
SpecRow == Init /\ [][NextRow]_vars

\* ----------------------------------------------------------------- claims
\* relay_remote_event_recv has just returned
Dispatched == pc = "done" /\ last.op = "recv"

\* the places of what it printed where it reported an error of this kind
Reports(kind) == {i \in DOMAIN last.printed : last.printed[i].print = kind}

\* the error "invalid data received from remote" (label error_data)
InvalidData == Reports("invalid data")

\* the error "callback failed for body type" (label error_cb)
HandlerFailed == Reports("callback failed")

\* the code and the body type of the message it was given
Code == JSON_GET_NUM(cJSON_Parse(last.data), "code", -1)
BodyType == JSON_GET_STR(cJSON_Parse(last.data), "body_type")

\* the message had code 200 and body type "buffer"
Qualifying == Dispatched /\ Code = 200 /\ BodyType = "buffer"

\* the sync request, sent to the remote of the message
SyncSent == [to |-> last.remote, json |-> SyncRequest]

\* the mirrored state and the flags are as they were before the operation
StateUnchanged ==
    /\ buffers = pre.buffers
    /\ synced = pre.synced
    /\ nsync = pre.nsync
    /\ delivered = pre.delivered
    /\ dropped = pre.dropped
    /\ failed = pre.failed

\* C1 (as stated): on a remote with synced = false, every dispatch of a
\* message with code 200 and body type "buffer" sends exactly one sync
\* request to that remote and sets synced to true.
C1_Original ==
    Qualifying /\ ~pre.synced[last.remote]
        => last.sent = <<SyncSent>> /\ synced[last.remote]

\* C1 (amended): on a remote with synced = false, the dispatch of a message
\* with code 200 and body type "buffer" that reports no HandlerFailed and for
\* which the two objects of the sync request are allocated sends exactly one
\* sync request to that remote and sets synced to true; a dispatch on a remote
\* with synced = true sends nothing, so that no remote is ever sent a second
\* sync request, and a remote is synced exactly when it was sent one.
C1_SyncOnce ==
    /\ \A r \in Remotes : nsync[r] <= 1 /\ (synced[r] <=> nsync[r] = 1)
    /\ Qualifying /\ ~pre.synced[last.remote]
         /\ HandlerFailed = {} /\ last.env.cjson = 2
           => /\ last.sent = <<SyncSent>>
              /\ synced[last.remote]
              /\ nsync[last.remote] = pre.nsync[last.remote] + 1
    /\ Dispatched /\ pre.synced[last.remote]
           => last.sent = <<>> /\ synced[last.remote]

\* C1 witness: a message with code 200 and body type "buffer" was dispatched
\* on a remote that an earlier such message had synced, and nothing was sent
C1_Witness ==
    /\ Qualifying
    /\ pre.synced[last.remote]
    /\ pre.nsync[last.remote] = 1
    /\ last.sent = <<>>
    /\ nsync[last.remote] = 1

\* the mirrored conversations of a remote: the buffers whose local variable
\* relay_remote is its name
Mirrored(bufs, remote) ==
    {i \in 1..Len(bufs) :
        /\ HasLocalvar(bufs[i], "relay_remote")
        /\ bufs[i].localvar["relay_remote"] = remote}

\* those stamped with the id
Stamped(bufs, remote, id) ==
    {i \in Mirrored(bufs, remote) :
        /\ HasLocalvar(bufs[i], "relay_remote_id")
        /\ bufs[i].localvar["relay_remote_id"] = FormatLL(id)}

\* the distinct ids of the buffer events delivered by a remote
Ids(remote) == {d[2] : d \in {e \in delivered : e[1] = remote}}

\* a message of body type "buffer" whose body is one object was dispatched
OneBuffer == Dispatched /\ BodyType = "buffer" /\ Len(last.calls) = 1

\* the id and the name of that object
BufferId == JSON_GET_NUM(last.calls[1].event.json, "id", -1)
BufferName == JSON_GET_STR(last.calls[1].event.json, "name")

\* the buffers other than those of the set are as before the operation
OthersUnchanged(set) ==
    \A i \in (1..Len(pre.buffers)) \ set : buffers[i] = pre.buffers[i]

\* C2 (as stated): the number of mirrored conversations of a remote equals
\* the number of distinct ids its buffer events delivered.
C2_Original ==
    \A r \in Remotes :
        Cardinality(Mirrored(buffers, r)) = Cardinality(Ids(r))

\* C2 (amended): a remote has at most one mirrored conversation for each
\* distinct id >= 0 it delivered.  A buffer event with id n >= 0 whose property
\* set is allocated updates the conversation stamped (remote, n) when there is
\* one (there is none before the first event for n) and creates no other;
\* when there is none and the store makes the buffer it creates exactly one,
\* named "remote.<remote name>.<name>" and stamped (remote name, n).  A buffer
\* event with a negative or absent id creates a new conversation every time
\* the store makes one.
C2_OnePerId ==
    /\ \A r \in Remotes :
          /\ \A n \in {m \in Ids(r) : m >= 0} :
                Cardinality(Stamped(buffers, r, n)) <= 1
          /\ \A i \in Mirrored(buffers, r) :
                relay_remote_event_get_buffer_id(buffers, i) \in Ids(r)
    /\ OneBuffer /\ last.env.calls[1].hashtable_new
         => LET old == Stamped(pre.buffers, last.remote, BufferId)
                new == Len(pre.buffers) + 1
            IN  /\ <<last.remote, BufferId>> \notin pre.delivered => old = {}
                /\ IF BufferId >= 0 /\ old # {}
                   THEN /\ Len(buffers) = Len(pre.buffers)
                        /\ Stamped(buffers, last.remote, BufferId) = old
                        /\ \A i \in old :
                              buffers[i].full_name = pre.buffers[i].full_name
                        /\ OthersUnchanged(old)
                   ELSE IF last.env.calls[1].buffer_new
                   THEN /\ Len(buffers) = new
                        /\ new \in Stamped(buffers, last.remote, BufferId)
                        /\ BufferId >= 0
                             => Stamped(buffers, last.remote, BufferId) = {new}
                        /\ buffers[new].full_name
                             = FullName(last.remote, BufferName)
                        /\ OthersUnchanged({})
                   ELSE buffers = pre.buffers

\* C2 witness: a second buffer event with the id of a mirrored conversation
\* has changed that conversation and created none
C2_Witness ==
    /\ OneBuffer
    /\ BufferId >= 0
    /\ <<last.remote, BufferId>> \in pre.delivered
    /\ Stamped(pre.buffers, last.remote, BufferId) # {}
    /\ buffers # pre.buffers
    /\ Len(buffers) = Len(pre.buffers)

\* a message of body type "nick" whose body is one object was dispatched, on
\* an event that is no removal and names a buffer of the remote
OneNick ==
    /\ Dispatched
    /\ BodyType = "nick"
    /\ Len(last.calls) = 1
    /\ last.calls[1].event.buffer # 0
    /\ last.calls[1].event.name # "nicklist_nick_removing"

\* the nick of the message, its id and the id of its parent group
NickJson == last.calls[1].event.json
NickId == JSON_GET_NUM(NickJson, "id", -1)
NickParent == JSON_GET_NUM(NickJson, "parent_group_id", -1)

\* the nicklist of the buffer of the event (of whatever body type), before
\* and after the operation
NicklistBefore == pre.buffers[last.calls[1].event.buffer].nicklist
NicklistAfter == buffers[last.calls[1].event.buffer].nicklist

\* the nicklist has a nick, a group, with the id
HasNick(nicklist, id) ==
    \E i \in 1..Len(nicklist.nicks) : nicklist.nicks[i].id = id
HasGroup(nicklist, id) ==
    \E i \in 1..Len(nicklist.groups) : nicklist.groups[i].id = id

\* the nicklist before the operation with one more nick: that of the
\* message, under its parent group, with its id
WithTheNick ==
    [NicklistBefore EXCEPT !.nicks =
        Append(@, [id |-> NickId, group |-> NickParent,
                   name |-> JSON_GET_STR(NickJson, "name"),
                   color |-> JSON_GET_STR(NickJson, "color_name"),
                   prefix |-> JSON_GET_STR(NickJson, "prefix"),
                   prefix_color |->
                       JSON_GET_STR(NickJson, "prefix_color_name"),
                   visible |-> JSON_GET_BOOL(NickJson, "visible")])]

\* the buffers are as before the operation but for the nicklist of the buffer
\* of the event
OnlyNicklistChanged ==
    buffers = [pre.buffers EXCEPT
                  ![last.calls[1].event.buffer].nicklist = NicklistAfter]

\* C3 (as stated): a nick whose id is unknown and whose parent group does not
\* exist leaves the nicklist unchanged; the same nick delivered again once a
\* group with the id of its parent exists creates exactly one nick under
\* that group, with the nick's id.
C3_Original ==
    /\ OneNick /\ ~HasNick(NicklistBefore, NickId)
         /\ ~HasGroup(NicklistBefore, NickParent)
           => NicklistAfter = NicklistBefore
    /\ OneNick /\ ~HasNick(NicklistBefore, NickId)
         /\ NickJson \in pre.dropped /\ HasGroup(NicklistBefore, NickParent)
           => NicklistAfter = WithTheNick

\* C3 (amended): a nick event (not a removal) whose id is unknown creates
\* exactly one nick, under its parent group and with the nick's id, when its
\* parent_group_id is >= 0, a group with that id exists and the store adds
\* the nick; in every other case (no such group, a parent_group_id that is
\* negative or absent, a nick the store refuses) it leaves the nicklist
\* unchanged.  So a nick dropped for want of its parent is created when it is
\* delivered again after the parent, under those conditions.
C3_NickAfterParent ==
    OneNick /\ ~HasNick(NicklistBefore, NickId)
        => /\ OnlyNicklistChanged
           /\ IF /\ NickParent >= 0
                 /\ HasGroup(NicklistBefore, NickParent)
                 /\ NickId \notin last.env.calls[1].add_nick
              THEN NicklistAfter = WithTheNick
              ELSE NicklistAfter = NicklistBefore

\* C3 witness: a nick that had been dropped was delivered again after its
\* parent group and is now the last nick of the list
C3_Witness ==
    /\ OneNick
    /\ NickJson \in pre.dropped
    /\ ~HasNick(NicklistBefore, NickId)
    /\ NickParent >= 0
    /\ HasGroup(NicklistBefore, NickParent)
    /\ Len(NicklistAfter.nicks) = Len(NicklistBefore.nicks) + 1
    /\ NicklistAfter.nicks[Len(NicklistAfter.nicks)].id = NickId

\* a message of body type "nick_group" whose body is one object was
\* dispatched, on an event that is no removal and names a buffer of the remote
OneGroup ==
    /\ Dispatched
    /\ BodyType = "nick_group"
    /\ Len(last.calls) = 1
    /\ last.calls[1].event.buffer # 0
    /\ last.calls[1].event.name # "nicklist_group_removing"

\* the id of the group of the message and the id of its parent group
GroupId == JSON_GET_NUM(last.calls[1].event.json, "id", -1)
GroupParent == JSON_GET_NUM(last.calls[1].event.json, "parent_group_id", -1)

\* C4: a nick_group event for a group id that is unknown whose parent group
\* does not exist adds no group (and changes nothing else), and its dispatch
\* reports neither InvalidData nor HandlerFailed.
C4_NoParentNoGroup ==
    OneGroup /\ ~HasGroup(NicklistBefore, GroupId)
             /\ ~HasGroup(NicklistBefore, GroupParent)
        => /\ NicklistAfter.groups = NicklistBefore.groups
           /\ buffers = pre.buffers
           /\ InvalidData = {}
           /\ HandlerFailed = {}
           /\ last.calls[1].rc = WEECHAT_RC_OK

\* C4 witness: such an event was dispatched, for a group that has a subgroup
\* and a nick whose own parent exists
C4_Witness ==
    /\ OneGroup
    /\ ~HasGroup(NicklistBefore, GroupId)
    /\ GroupParent >= 0
    /\ ~HasGroup(NicklistBefore, GroupParent)
    /\ ArrayItems(cJSON_GetObjectItem(last.calls[1].event.json, "groups"))
         # <<>>
    /\ HasGroup(NicklistBefore, 0)
    /\ last.printed = <<>>

\* relay_remote_event_buffer_input_cb has just returned
Submitted == pc = "done" /\ last.op = "input"

\* the message {request: "POST /api/input", body: {buffer_id: n, command: t}}
\* on its way to the remote
InputSent(remote, n, t) ==
    [to |-> remote,
     json |-> [t |-> "obj",
               o |-> [request |-> [t |-> "str", s |-> "POST /api/input"],
                      body |-> [t |-> "obj",
                                o |-> [buffer_id |-> [t |-> "num", n |-> n],
                                       command |-> [t |-> "str",
                                                    s |-> t]]]]]]

\* C5 (as stated): input submitted into the conversation that a buffer event
\* with id n >= 0 of a remote created sends exactly one message
\* {request: "POST /api/input", body: {buffer_id: n, command: t}} to that
\* remote, whatever buffer events have updated the conversation since.
C5_Original ==
    Submitted
        => \A r \in Remotes : \A n \in {m \in Ids(r) : m >= 0} :
              last.buffer \in Stamped(buffers, r, n)
                  => last.sent = <<InputSent(r, n, last.input_data)>>

\* C5 (amended): it sends exactly that one message when the two JSON objects
\* of the request are allocated, and nothing when they are not; the mirrored
\* state is not changed.
C5_InputRoundTrip ==
    Submitted
        => /\ \A r \in Remotes : \A n \in {m \in Ids(r) : m >= 0} :
                last.buffer \in Stamped(buffers, r, n)
                    => IF last.cjson = 2
                       THEN last.sent = <<InputSent(r, n, last.input_data)>>
                       ELSE last.sent = <<>>
           /\ Len(last.sent) <= 1
           /\ buffers = pre.buffers
           /\ synced = pre.synced

\* C5 witness: input was submitted into a conversation that a later buffer
\* event has updated (created with the name "x", it now has the short name
\* "s2"), while remote B holds a conversation with the same id
C5_Witness ==
    /\ Submitted
    /\ last.cjson = 2
    /\ \E r \in Remotes : \E n \in {m \in Ids(r) : m >= 0} :
          /\ last.buffer \in Stamped(buffers, r, n)
          /\ buffers[last.buffer].full_name = <<"remote", r, "x">>
          /\ buffers[last.buffer].props["short_name"] = "s2"
          /\ last.sent = <<InputSent(r, n, last.input_data)>>
          /\ \E i \in Stamped(buffers, "B", n) : i # last.buffer

\* what was printed is at most the debug message: no error was reported
NothingReported ==
    \A i \in DOMAIN last.printed : last.printed[i].print = "recv"

\* C6: a message whose body type is none of buffer, line, nick_group, nick,
\* version leads to no call of a callback, reports no error, sends nothing,
\* and leaves the buffers and the flag synced as they were, whatever its code,
\* event and body.
C6_UnknownBodyType ==
    Dispatched /\ BodyType # NULL
               /\ BodyType \notin
                    {"buffer", "line", "nick_group", "nick", "version"}
        => /\ last.calls = <<>>
           /\ NothingReported
           /\ last.sent = <<>>
           /\ StateUnchanged

\* C6 witness: a message of body type "future_feature" with code 200 and an
\* event that names an existing buffer was dispatched on a remote that is
\* not synced
C6_Witness ==
    /\ Dispatched
    /\ BodyType = "future_feature"
    /\ Code = 200
    /\ ~pre.synced[last.remote]
    /\ Stamped(pre.buffers, last.remote, 0) # {}
    /\ cJSON_IsObject(cJSON_GetObjectItem(cJSON_Parse(last.data), "event"))
    /\ cJSON_IsArray(cJSON_GetObjectItem(cJSON_Parse(last.data), "body"))
    /\ ~synced[last.remote]

\* the data of the message is no JSON
ParseFailed == cJSON_Parse(last.data) = JNone

\* C7: a message that fails to parse, or has no body type and a code other
\* than 200 and 204, reports InvalidData exactly once (with the name of the
\* remote and the data); one with no body type and code 200 or 204 reports
\* nothing; in the three cases no callback is called, nothing is sent and the
\* buffers and the flag synced are as they were.
C7_InvalidData ==
    Dispatched /\ last.data # NoData /\ (ParseFailed \/ BodyType = NULL)
        => /\ last.calls = <<>>
           /\ last.sent = <<>>
           /\ StateUnchanged
           /\ HandlerFailed = {}
           /\ IF ParseFailed \/ Code \notin {200, 204}
              THEN /\ Cardinality(InvalidData) = 1
                   /\ \A i \in InvalidData :
                         /\ last.printed[i].remote = last.remote
                         /\ last.printed[i].data = last.data
              ELSE NothingReported

\* C7 witness: a message with no body type and code 404 was dispatched when
\* the remote had a buffer, and InvalidData was reported once
C7_Witness ==
    /\ Dispatched
    /\ ~ParseFailed
    /\ BodyType = NULL
    /\ Code = 404
    /\ Cardinality(InvalidData) = 1
    /\ Mirrored(pre.buffers, last.remote) # {}

\* the message has a body type that has a callback
KnownBodyType ==
    /\ Dispatched
    /\ BodyType \in {"buffer", "line", "nick_group", "nick", "version"}

\* the event and the body of the message
MessageEvent == cJSON_GetObjectItem(cJSON_Parse(last.data), "event")
MessageBody == cJSON_GetObjectItem(cJSON_Parse(last.data), "body")

\* the name the event of the message has, NULL when it has none
EventName ==
    IF MessageEvent.t = "obj" /\ "name" \in DOMAIN MessageEvent.o
       /\ MessageEvent.o["name"].t = "str"
    THEN MessageEvent.o["name"].s ELSE NULL

\* the buffer that the buffer_id of the event named before the operation,
\* 0 when it named none
EventHandle ==
    IF MessageEvent.t = "obj" /\ "buffer_id" \in DOMAIN MessageEvent.o
       /\ MessageEvent.o["buffer_id"].t = "num"
       /\ MessageEvent.o["buffer_id"].n >= 0
       /\ Stamped(pre.buffers, last.remote, MessageEvent.o["buffer_id"].n) # {}
    THEN CHOOSE i \in Stamped(pre.buffers, last.remote,
                              MessageEvent.o["buffer_id"].n) :
             \A j \in Stamped(pre.buffers, last.remote,
                              MessageEvent.o["buffer_id"].n) : i <= j
    ELSE 0

\* C8: for a message with a known body type whose body is an array of n
\* elements the callback is called exactly n times, on the elements in the
\* order of the array, and once on the body when it is no array; every call
\* sees the name of the event and the buffer that its buffer_id named before
\* the first call.
C8_OneCallPerElement ==
    KnownBodyType
        => /\ IF MessageBody.t = "arr"
              THEN /\ Len(last.calls) = Len(MessageBody.a)
                   /\ \A i \in DOMAIN last.calls :
                         last.calls[i].event.json = MessageBody.a[i]
              ELSE /\ Len(last.calls) = 1
                   /\ last.calls[1].event.json = MessageBody
           /\ \A i \in DOMAIN last.calls :
                 /\ last.calls[i].event.name = EventName
                 /\ last.calls[i].event.buffer = EventHandle
                 /\ last.calls[i].event.remote = last.remote

\* C8 witness: an array of two different buffers was dispatched with an event
\* naming buffer 0, which did not exist before the calls and exists after
\* them, and the second call still saw no buffer
C8_Witness ==
    /\ KnownBodyType
    /\ BodyType = "buffer"
    /\ MessageBody.t = "arr"
    /\ Len(last.calls) = 2
    /\ MessageBody.a[1] # MessageBody.a[2]
    /\ EventName = "buffer_opened"
    /\ Stamped(pre.buffers, last.remote, 0) = {}
    /\ Stamped(buffers, last.remote, 0) # {}
    /\ last.calls[2].event.buffer = 0

\* the last call made for the message returned WEECHAT_RC_ERROR
LastCallFailed ==
    /\ last.calls # <<>>
    /\ last.calls[Len(last.calls)].rc = WEECHAT_RC_ERROR

\* C9: for a message with a known body type, HandlerFailed is reported if and
\* only if the last call made for it failed; a failure of an earlier element
\* is not reported and stops neither the later calls nor the sync, and a body
\* that is an empty array (no call at all) reports no failure.
C9_LastCallDecides ==
    KnownBodyType
        => /\ HandlerFailed # {} <=> LastCallFailed
           /\ Len(last.calls) = Len(BodyItems(MessageBody))
           /\ ~LastCallFailed /\ Code = 200 /\ BodyType = "buffer"
                /\ ~pre.synced[last.remote] /\ last.env.cjson = 2
                  => last.sent = <<SyncSent>>

\* C9, for the messages that lead to one call at least: the same statement
\* holds of them
C9_WhenCalled ==
    KnownBodyType /\ last.calls # <<>>
        => /\ HandlerFailed # {} <=> LastCallFailed
           /\ Cardinality(HandlerFailed) <= 1
           /\ Len(last.calls) = Len(BodyItems(MessageBody))
           /\ ~LastCallFailed /\ Code = 200 /\ BodyType = "buffer"
                /\ ~pre.synced[last.remote] /\ last.env.cjson = 2
                  => last.sent = <<SyncSent>>

\* a call before the last failed, the last did not, and the sync was sent
C9_EarlierFailureSeen ==
    /\ KnownBodyType
    /\ Len(last.calls) = 2
    /\ last.calls[1].rc = WEECHAT_RC_ERROR
    /\ ~LastCallFailed
    /\ HandlerFailed = {}
    /\ last.sent = <<SyncSent>>

\* C10 (as stated): when the dispatch of a message with code 200 and body
\* type "buffer" on a remote that is not synced ends in HandlerFailed, nothing
\* is sent and the remote stays not synced; the next such message whose
\* callback succeeds sends the sync request and sets synced.
C10_Original ==
    /\ Qualifying /\ ~pre.synced[last.remote] /\ HandlerFailed # {}
         => last.sent = <<>> /\ ~synced[last.remote]
    /\ Qualifying /\ ~pre.synced[last.remote] /\ last.remote \in pre.failed
         /\ last.calls # <<>> /\ ~LastCallFailed
           => last.sent = <<SyncSent>> /\ synced[last.remote]

\* C10 (amended): when the dispatch of a message with code 200 and body type
\* "buffer" on a remote that is not synced ends in HandlerFailed, nothing is
\* sent and the remote stays not synced; a later such message whose last call
\* succeeds sends the sync request and sets synced when the two objects of
\* the request are allocated; when they are not, nothing is sent and the
\* remote stays not synced.  A remote that went through this is never sent
\* more than one sync request.
C10_SyncRetried ==
    /\ Qualifying /\ ~pre.synced[last.remote] /\ HandlerFailed # {}
         => /\ last.sent = <<>>
            /\ ~synced[last.remote]
            /\ last.remote \in failed
    /\ Qualifying /\ ~pre.synced[last.remote] /\ last.remote \in pre.failed
         /\ last.calls # <<>> /\ ~LastCallFailed
           => IF last.env.cjson = 2
              THEN last.sent = <<SyncSent>> /\ synced[last.remote]
              ELSE last.sent = <<>> /\ ~synced[last.remote]
    /\ \A r \in failed : nsync[r] <= 1

\* C10 witness: after a dispatch that ended in HandlerFailed on a remote that
\* was not synced, a message whose last call succeeded has sent the sync
C10_Witness ==
    /\ Qualifying
    /\ last.remote \in pre.failed
    /\ ~pre.synced[last.remote]
    /\ pre.nsync[last.remote] = 0
    /\ ~LastCallFailed
    /\ last.sent = <<SyncSent>>
    /\ synced[last.remote]

\* a line message was dispatched whose event named a buffer of the remote
LineStored == Dispatched /\ BodyType = "line" /\ EventHandle # 0

\* the lines the buffer of the event has that it had not before
NewLines ==
    SubSeq(buffers[EventHandle].lines,
           Len(pre.buffers[EventHandle].lines) + 1,
           Len(buffers[EventHandle].lines))

\* every call has added one line to the buffer of the event, after those it
\* had, and nothing else has changed
OneLinePerCall ==
    /\ Len(buffers) = Len(pre.buffers)
    /\ Len(NewLines) = Len(last.calls)
    /\ buffers = [pre.buffers EXCEPT ![EventHandle].lines = @ \o NewLines]

\* the y of the payload of a call, and whether it is a number below zero
PayloadY(i) == cJSON_GetObjectItem(last.calls[i].event.json, "y")
IsNegative(json) ==
    /\ json.t = "num"
    /\ IF "negative" \in DOMAIN json THEN json.negative ELSE json.n < 0
IsWhole(json) == json.t = "num" /\ "half" \notin DOMAIN json

Positional(line, row) ==
    line.printf = "weechat_printf_y_datetime_tags" /\ line.y = row
Appended(line) == line.printf = "weechat_printf_datetime_tags"

\* C11 (as stated): a line payload handled with a resolved conversation
\* stores exactly one line through exactly one primitive: the positional one
\* at row y when y >= 0, the appended one when y is absent, not a number, or
\* negative.
C11_Original ==
    LineStored
        => /\ OneLinePerCall
           /\ \A i \in DOMAIN last.calls :
                 IF PayloadY(i).t = "num" /\ ~IsNegative(PayloadY(i))
                 THEN /\ IsWhole(PayloadY(i))
                      /\ Positional(NewLines[i], PayloadY(i).n)
                 ELSE Appended(NewLines[i])

\* C11 (amended): a line payload handled with a resolved conversation stores
\* exactly one line through exactly one primitive.  y is read into an int, so
\* its fraction is dropped: the line goes to the positional primitive at the
\* row that is y without its fraction when y is a number above -1 (-0.5 goes
\* to row 0), and to the appended primitive when y is absent, not a number,
\* or at most -1.
C11_RowOfY ==
    LineStored
        => /\ OneLinePerCall
           /\ \A i \in DOMAIN last.calls :
                 IF PayloadY(i).t = "num" /\ PayloadY(i).n >= 0
                 THEN Positional(NewLines[i], PayloadY(i).n)
                 ELSE Appended(NewLines[i])

\* C11 witness: a line with y = -1/2 was stored at row 0 of a buffer that
\* had an appended line
C11_Witness ==
    /\ LineStored
    /\ Len(last.calls) = 1
    /\ IsNegative(PayloadY(1))
    /\ Len(pre.buffers[EventHandle].lines) = 1
    /\ Appended(pre.buffers[EventHandle].lines[1])
    /\ Len(NewLines) = 1
    /\ Positional(NewLines[1], 0)

\* the tags of the payload of a call: each element's string, the empty string
\* for an element that is no string; no element when tags is no array
TagStrings(i) ==
    LET items == ArrayItems(cJSON_GetObjectItem(last.calls[i].event.json,
                                                "tags"))
    IN  [k \in DOMAIN items |->
            IF items[k].t = "str" THEN items[k].s ELSE ""]

\* all the elements of the tags of the payload are strings
AllStrings(i) ==
    LET items == ArrayItems(cJSON_GetObjectItem(last.calls[i].event.json,
                                                "tags"))
    IN  \A k \in DOMAIN items : items[k].t = "str"

\* the strings of q with "," between them (a string is the sequence of its
\* pieces, the empty string is the empty sequence)
RECURSIVE Joined(_)
Joined(q) ==
    IF q = <<>> THEN <<>>
    ELSE (IF Head(q) = "" THEN <<>> ELSE <<Head(q)>>)
         \o (IF Len(q) > 1 THEN <<",">> \o Joined(Tail(q)) ELSE <<>>)

\* q without the empty strings it starts with
RECURSIVE WithoutLeadingEmpty(_)
WithoutLeadingEmpty(q) ==
    IF q # <<>> /\ Head(q) = "" THEN WithoutLeadingEmpty(Tail(q)) ELSE q

\* C12 (as stated): for every tags array of a line payload, the tags string
\* handed to the store equals the array's elements joined with "," in array
\* order (the empty string for an absent or empty array).
C12_Original ==
    LineStored
        => \A i \in DOMAIN last.calls :
              AllStrings(i)
                  => /\ i \in DOMAIN NewLines
                     /\ NewLines[i].tags = <<Joined(TagStrings(i))>>

\* C12 (amended): when the string of the tags is allocated, the tags string
\* handed to the store equals the elements of the array, without the empty
\* ones it starts with, joined with "," in array order, an element that is
\* no string counting as an empty one (the empty string for tags that are
\* absent, no array or an empty array); when the string is not allocated no
\* tags string is handed to the store.
C12_TagsJoined ==
    LineStored
        => \A i \in DOMAIN last.calls :
              /\ i \in DOMAIN NewLines
              /\ NewLines[i].tags =
                    IF last.env.calls[i].string_dyn_alloc
                    THEN <<Joined(WithoutLeadingEmpty(TagStrings(i)))>>
                    ELSE <<>>

\* C12 witness: the tags "joined" and "notify" were stored as "joined,notify"
\* and the tags "a", "", "b" as "a,,b"
C12_Witness ==
    /\ LineStored
    /\ Len(pre.buffers[EventHandle].lines) = 1
    /\ pre.buffers[EventHandle].lines[1].tags
         = << <<"joined", ",", "notify">> >>
    /\ Len(NewLines) = 1
    /\ TagStrings(1) = <<"a", "", "b">>
    /\ NewLines[1].tags = << <<"a", ",", ",", "b">> >>

\* the id of the root of a nicklist: the group that has no parent
RootId(nicklist) ==
    (CHOOSE g \in {nicklist.groups[i] : i \in DOMAIN nicklist.groups} :
        g.parent = <<>>).id

\* the groups of a nicklist with the id, as [id, parent]
GroupsWithId(nicklist, id) ==
    {g \in {nicklist.groups[i] : i \in DOMAIN nicklist.groups} : g.id = id}

\* C13 (as stated): a group create (unknown group id) whose parent_group_id
\* is -1 or absent attaches the new group directly under the root of the
\* nicklist of the conversation.
C13_Original ==
    OneGroup /\ ~HasGroup(NicklistBefore, GroupId) /\ GroupParent < 0
        => \E g \in GroupsWithId(NicklistAfter, GroupId) :
              g.parent = <<RootId(NicklistBefore)>>

\* C13 (amended): a group create (unknown group id) whose parent_group_id is
\* negative or absent is dropped: no group is attached, under the root or
\* anywhere else, even when a group with id -1 exists; its subgroups and
\* nicks are not taken, the nicklist and the buffers stay as they were and
\* no error is reported.
C13_NoParentNoCreate ==
    OneGroup /\ ~HasGroup(NicklistBefore, GroupId) /\ GroupParent < 0
        => /\ GroupsWithId(NicklistAfter, GroupId) = {}
           /\ NicklistAfter = NicklistBefore
           /\ buffers = pre.buffers
           /\ last.printed = <<>>

\* C13 (amended, the other half): the group a create attaches has the parent
\* its parent_group_id names, so it is directly under the root only when
\* parent_group_id is the id of the root.
C13_ParentAsNamed ==
    OneGroup /\ ~HasGroup(NicklistBefore, GroupId)
        => \A g \in GroupsWithId(NicklistAfter, GroupId) :
              GroupParent >= 0 /\ g.parent = <<GroupParent>>

\* C13 (amended): a group create whose parent_group_id is negative or absent
\* attaches nothing and changes nothing, and a group that a create attaches
\* is under the group its parent_group_id names: under the root only when
\* that is the id of the root.
C13_RootlessDropped == C13_NoParentNoCreate /\ C13_ParentAsNamed

\* C13 witness: a group without parent_group_id, with a nick whose parent is
\* the root, was delivered to a buffer that has the root and a group -1
C13_Witness ==
    /\ OneGroup
    /\ ~HasGroup(NicklistBefore, GroupId)
    /\ cJSON_GetObjectItem(last.calls[1].event.json, "parent_group_id")
         = JNone
    /\ ArrayItems(cJSON_GetObjectItem(last.calls[1].event.json, "nicks"))
         # <<>>
    /\ HasGroup(NicklistBefore, RootId(NicklistBefore))
    /\ HasGroup(NicklistBefore, -1)
    /\ NicklistAfter = NicklistBefore

\* a node of a tree of groups without its subgroups and nicks
Alone(json) ==
    Obj([f \in DOMAIN json.o \ {"groups", "nicks"} |-> json.o[f]])

SubgroupsOf(json) == ArrayItems(cJSON_GetObjectItem(json, "groups"))
NicksOf(json) == ArrayItems(cJSON_GetObjectItem(json, "nicks"))

\* the nick upsert on every nick of q, in order
RECURSIVE UpsertEach(_, _, _)
UpsertEach(nicklist, q, env) ==
    IF q = <<>> THEN nicklist
    ELSE UpsertEach(relay_remote_event_handle_nick(nicklist, Head(q), env),
                    Tail(q), env)

\* the routine that takes the subgroups and the nicks of every node
RECURSIVE VisitAll(_, _, _)
RECURSIVE VisitAllOf(_, _, _)
VisitAllOf(nicklist, q, env) ==
    IF q = <<>> THEN nicklist
    ELSE VisitAllOf(VisitAll(nicklist, Head(q), env), Tail(q), env)

VisitAll(nicklist, json, env) ==
    UpsertEach(
        VisitAllOf(
            relay_remote_event_handle_nick_group(nicklist, Alone(json), env),
            SubgroupsOf(json), env),
        NicksOf(json), env)

\* the group of the node exists, or its parent does and is not negative
Kept(nicklist, json) ==
    \/ HasGroup(nicklist, JSON_GET_NUM(json, "id", -1))
    \/ /\ JSON_GET_NUM(json, "parent_group_id", -1) >= 0
       /\ HasGroup(nicklist, JSON_GET_NUM(json, "parent_group_id", -1))

\* the routine that takes the subgroups and the nicks of the nodes it keeps
RECURSIVE VisitKept(_, _, _)
RECURSIVE VisitKeptOf(_, _, _)
VisitKeptOf(nicklist, q, env) ==
    IF q = <<>> THEN nicklist
    ELSE VisitKeptOf(VisitKept(nicklist, Head(q), env), Tail(q), env)

VisitKept(nicklist, json, env) ==
    IF ~Kept(nicklist, json) THEN nicklist
    ELSE UpsertEach(
             VisitKeptOf(
                 relay_remote_event_handle_nick_group(
                     nicklist, Alone(json), env),
                 SubgroupsOf(json), env),
             NicksOf(json), env)

\* C14 (as stated): the tree-building routine applied to a node takes every
\* element of node.groups with the same routine and then every element of
\* node.nicks with the nick upsert, for every node it is called on, a node
\* whose own create was dropped included.
C14_Original ==
    OneGroup
        => NicklistAfter
             = VisitAll(NicklistBefore, last.calls[1].event.json,
                        last.env.calls[1])

\* C14 (amended): the tree-building routine applied to a node whose group
\* exists, or whose parent_group_id is >= 0 and names a group that exists,
\* updates or creates the group (a create the store refuses adds nothing),
\* then takes every element of node.groups with the same routine, in order,
\* and then every element of node.nicks with the nick upsert, in order.
\* Applied to any other node (unknown group whose parent is missing,
\* negative or absent) it returns at once: the subgroups and nicks of that
\* node are not taken.
C14_TreeOrder ==
    OneGroup
        => /\ NicklistAfter
                = VisitKept(NicklistBefore, last.calls[1].event.json,
                            last.env.calls[1])
           /\ OnlyNicklistChanged

\* C14 witness: a group with a subgroup, a nick of the subgroup and a nick
\* of its own was delivered to a buffer that had the root only, and the
\* nicklist has them all, in that order
C14_Witness ==
    /\ OneGroup
    /\ Len(NicklistBefore.groups) = 1
    /\ Len(SubgroupsOf(last.calls[1].event.json)) = 1
    /\ Len(NicksOf(last.calls[1].event.json)) = 2
    /\ [i \in 1..3 |-> NicklistAfter.groups[i].id]
         = <<RootId(NicklistBefore), 5, 8>>
    /\ [i \in 1..2 |-> <<NicklistAfter.nicks[i].id,
                          NicklistAfter.nicks[i].group>>]
         = << <<3, 8>>, <<1, 5>> >>
    /\ Len(NicklistAfter.groups) = 3
    /\ Len(NicklistAfter.nicks) = 2

\* the same message dispatched once more, from the state the first dispatch
\* left, with the store behaving as env says
Again(env) ==
    relay_remote_event_recv(buffers, synced[last.remote], last.remote,
                            last.data, env)

\* every nick of q is found or created when the nick upsert reaches it
RECURSIVE NicksKept(_, _, _)
NicksKept(nicklist, q, env) ==
    \/ q = <<>>
    \/ LET after == relay_remote_event_handle_nick(nicklist, Head(q), env)
       IN  /\ HasNick(after, JSON_GET_NUM(Head(q), "id", -1))
           /\ NicksKept(after, Tail(q), env)

\* every group and nick of the tree is found or created when the
\* tree-building routine reaches it: no create is dropped or refused
RECURSIVE AllKept(_, _, _)
RECURSIVE AllKeptOf(_, _, _)
AllKeptOf(nicklist, q, env) ==
    \/ q = <<>>
    \/ /\ AllKept(nicklist, Head(q), env)
       /\ AllKeptOf(VisitKept(nicklist, Head(q), env), Tail(q), env)

AllKept(nicklist, json, env) ==
    LET after == relay_remote_event_handle_nick_group(
                     nicklist, Alone(json), env)
    IN  /\ HasGroup(after, JSON_GET_NUM(json, "id", -1))
        /\ AllKeptOf(after, SubgroupsOf(json), env)
        /\ NicksKept(VisitKeptOf(after, SubgroupsOf(json), env),
                     NicksOf(json), env)

\* C15 (as stated): dispatching the same nick_group payload twice in a row
\* on the same conversation leaves exactly the nicklist that dispatching it
\* once leaves, for every payload and every starting nicklist.
C15_Original ==
    OneGroup => Again(last.env).bufs = buffers

\* C15 (amended): when the first dispatch of a nick_group payload dropped
\* no create (every group and nick of the tree was found or created when the
\* routine reached it), dispatching the same payload once more on the same
\* conversation leaves exactly the nicklist (and the buffers) the first
\* dispatch left, whatever the store would answer to a create, and reports
\* nothing.
C15_TwiceAsOnce ==
    OneGroup /\ AllKept(NicklistBefore, last.calls[1].event.json,
                        last.env.calls[1])
        => \A env \in {e \in RecvEnvs(last.data, TreeCallEnvs) :
                          e.cjson = 2} :
              /\ Again(env).bufs = buffers
              /\ Again(env).printed = <<>>

\* C15 witness: a group with a subgroup and nicks was delivered to a buffer
\* that had none of them, all were created, and the same payload once more
\* changes nothing
C15_Witness ==
    /\ OneGroup
    /\ AllKept(NicklistBefore, last.calls[1].event.json, last.env.calls[1])
    /\ SubgroupsOf(last.calls[1].event.json) # <<>>
    /\ NicksOf(last.calls[1].event.json) # <<>>
    /\ Len(NicklistAfter.groups) = Len(NicklistBefore.groups) + 2
    /\ Len(NicklistAfter.nicks) = Len(NicklistBefore.nicks) + 2
    /\ Again(last.env).bufs = buffers

\* the buffers before call i of the buffer handler in the last dispatch
\* (those after the last call for i = Len(last.calls) + 1)
RECURSIVE BufsBefore(_)
BufsBefore(i) ==
    IF i = 1 THEN pre.buffers
    ELSE relay_remote_event_cb_buffer(
             BufsBefore(i - 1), last.calls[i - 1].event,
             last.env.calls[i - 1]).bufs

BufferDispatch == Dispatched /\ BodyType = "buffer"

\* C16: when the buffer handler returns a hard failure for a payload, that
\* payload has caused no mutation (no conversation created or updated, no
\* key bound, no line stored, no nicklist entry changed); in every other
\* case (the properties could be allocated) the buffer handler returns
\* success.
C16_FailureMutatesNothing ==
    BufferDispatch
        => /\ \A i \in DOMAIN last.calls :
                /\ last.calls[i].rc \in {WEECHAT_RC_OK, WEECHAT_RC_ERROR}
                /\ last.calls[i].rc = WEECHAT_RC_ERROR
                     <=> ~last.env.calls[i].hashtable_new
                /\ last.calls[i].rc = WEECHAT_RC_ERROR
                     => BufsBefore(i + 1) = BufsBefore(i)
           /\ BufsBefore(Len(last.calls) + 1) = buffers
           /\ (\A i \in DOMAIN last.calls :
                  last.calls[i].rc = WEECHAT_RC_ERROR)
                => buffers = pre.buffers

\* C16 witness: in an array of two buffers the first was taken (the buffers
\* changed) and the second, a buffer that exists with a key, a line and the
\* root of its nicklist, met the hard failure and changed nothing
C16_Witness ==
    /\ BufferDispatch
    /\ Len(last.calls) = 2
    /\ last.calls[1].rc = WEECHAT_RC_OK
    /\ last.calls[2].rc = WEECHAT_RC_ERROR
    /\ BufsBefore(2) # pre.buffers
    /\ relay_remote_event_search_buffer(
           BufsBefore(2), "A", JSON_GET_NUM(last.calls[2].event.json, "id", -1))
         # 0
    /\ cJSON_IsObject(
           cJSON_GetObjectItem(last.calls[2].event.json, "nicklist_root"))
    /\ ArrayItems(cJSON_GetObjectItem(last.calls[2].event.json, "keys"))
         # <<>>
    /\ ArrayItems(cJSON_GetObjectItem(last.calls[2].event.json, "lines"))
         # <<>>
    /\ buffers = BufsBefore(2)

\* a message with one nick was handed to the nick upsert for a nick that
\* the buffer has
NickUpdate == OneNick /\ HasNick(NicklistBefore, NickId)

\* the nick of the nicklist with the id given
TheNick(nicklist, id) ==
    CHOOSE i \in 1..Len(nicklist.nicks) : nicklist.nicks[i].id = id

\* C17: a nick upsert for an id that already exists in the conversation
\* changes only the color_name, prefix, prefix_color_name, visible and
\* plain-id stamp of that nick: its name and its parent group stay as they
\* were, and no other nick or group changes (nor anything else of the
\* buffers).
C17_UpdateKeepsNameAndGroup ==
    NickUpdate
        => /\ NicklistAfter =
                [NicklistBefore EXCEPT
                    !["nicks"][TheNick(NicklistBefore, NickId)] =
                        [id |-> NickId,
                         group |-> @.group,
                         name |-> @.name,
                         color |-> JSON_GET_STR(NickJson, "color_name"),
                         prefix |-> JSON_GET_STR(NickJson, "prefix"),
                         prefix_color |->
                             JSON_GET_STR(NickJson, "prefix_color_name"),
                         visible |-> JSON_GET_BOOL(NickJson, "visible")]]
           /\ OnlyNicklistChanged
           /\ last.printed = <<>>

\* C17 witness: a nick that the buffer has, with another nick and a group,
\* came with another name, another parent, another color, prefix, prefix
\* color and visibility; the nick has the new color and the name it had
C17_Witness ==
    /\ NickUpdate
    /\ Len(NicklistBefore.nicks) >= 2
    /\ Len(NicklistBefore.groups) >= 2
    /\ \E n \in {NicklistBefore.nicks[TheNick(NicklistBefore, NickId)]} :
          /\ n.name # JSON_GET_STR(NickJson, "name")
          /\ n.group # NickParent
          /\ HasGroup(NicklistBefore, NickParent)
          /\ n.color # JSON_GET_STR(NickJson, "color_name")
          /\ n.prefix # JSON_GET_STR(NickJson, "prefix")
          /\ n.prefix_color # JSON_GET_STR(NickJson, "prefix_color_name")
          /\ n.visible # JSON_GET_BOOL(NickJson, "visible")
    /\ NicklistAfter # NicklistBefore
    /\ NicklistAfter.nicks[TheNick(NicklistAfter, NickId)].color
         = JSON_GET_STR(NickJson, "color_name")

\* a message with one group (nick) to remove was handed to the callback, for
\* a buffer that exists
GroupRemoval ==
    /\ Dispatched
    /\ BodyType = "nick_group"
    /\ Len(last.calls) = 1
    /\ last.calls[1].event.buffer # 0
    /\ last.calls[1].event.name = "nicklist_group_removing"

NickRemoval ==
    /\ Dispatched
    /\ BodyType = "nick"
    /\ Len(last.calls) = 1
    /\ last.calls[1].event.buffer # 0
    /\ last.calls[1].event.name = "nicklist_nick_removing"

RemovedId == JSON_GET_NUM(last.calls[1].event.json, "id", -1)

\* the group id is the group N or is below it
RECURSIVE Under(_, _, _)
Under(nicklist, id, N) ==
    \/ id = N
    \/ \E i \in 1..Len(nicklist.groups) :
          /\ nicklist.groups[i].id = id
          /\ nicklist.groups[i].parent # <<>>
          /\ Under(nicklist, nicklist.groups[i].parent[1], N)

GroupsOf(nicklist) == {nicklist.groups[i] : i \in 1..Len(nicklist.groups)}
NicksIn(nicklist) == {nicklist.nicks[i] : i \in 1..Len(nicklist.nicks)}

C18_NickRemoved ==
    /\ NickRemoval
    /\ HasNick(NicklistBefore, RemovedId)
    /\ ~HasNick(NicklistAfter, RemovedId)
    /\ HasGroup(NicklistAfter, RemovedId)

\* the buffer_id of the event of the last message, -1 when the message has
\* no event, or the event no buffer_id that is a number
EventBufferId ==
    IF MessageEvent.t = "obj" /\ "buffer_id" \in DOMAIN MessageEvent.o
       /\ MessageEvent.o["buffer_id"].t = "num"
    THEN MessageEvent.o["buffer_id"].n ELSE -1

\* the buffers that are not of the remote of the last dispatch
OfOtherRemotes ==
    (1..Len(pre.buffers)) \ Mirrored(pre.buffers, last.remote)

\* C19: a dispatch for a remote never updates, appends a line to, or changes
\* the nicklist of a conversation stamped with the name of another remote,
\* even when both remotes use the same conversation id; and an event
\* buffer_id that is negative or absent resolves to no conversation (the
\* callbacks get no buffer, even when a conversation is stamped with a
\* negative id).
C19_RemotesApart ==
    Dispatched
        => /\ Len(buffers) >= Len(pre.buffers)
           /\ \A i \in OfOtherRemotes : buffers[i] = pre.buffers[i]
           /\ \A k \in DOMAIN last.calls :
                /\ EventBufferId < 0 => last.calls[k].event.buffer = 0
                /\ last.calls[k].event.buffer # 0
                     => last.calls[k].event.buffer
                          \in Stamped(pre.buffers, last.remote, EventBufferId)
           /\ (BodyType # "buffer" /\ EventBufferId < 0)
                => buffers = pre.buffers

\* C19 witness: a line came for buffer 0 of a remote while the other remote
\* has a buffer 0 too, earlier in the list: the line is in the buffer of the
\* first, the buffer of the second is as it was
C19_Witness ==
    /\ Dispatched
    /\ BodyType = "line"
    /\ EventBufferId = 0
    /\ Len(last.calls) = 1
    /\ last.calls[1].event.buffer # 0
    /\ \E i \in OfOtherRemotes :
          /\ i < last.calls[1].event.buffer
          /\ \E remote \in Remotes : i \in Stamped(pre.buffers, remote, 0)
          /\ pre.buffers[i].nicklist.nicks # <<>>
          /\ buffers[i] = pre.buffers[i]
    /\ Len(buffers[last.calls[1].event.buffer].lines)
         = Len(pre.buffers[last.calls[1].event.buffer].lines) + 1

\* C19 witness, the negative id: a nick came with buffer_id -1 while a
\* buffer of the remote is stamped with the id -1, and nothing changed
C19_NegativeIsNone ==
    /\ Dispatched
    /\ BodyType = "nick"
    /\ MessageEvent.t = "obj"
    /\ "buffer_id" \in DOMAIN MessageEvent.o
    /\ EventBufferId = -1
    /\ Stamped(pre.buffers, last.remote, -1) # {}
    /\ Len(last.calls) = 1
    /\ last.calls[1].event.buffer = 0
    /\ buffers = pre.buffers

\* the last message is of a line, a nick or a group and has no event object,
\* or an event whose buffer_id names no buffer of the remote
NoConversation ==
    /\ Dispatched
    /\ BodyType \in {"line", "nick", "nick_group"}
    /\ \/ MessageEvent.t # "obj"
       \/ EventBufferId < 0
       \/ Stamped(pre.buffers, last.remote, EventBufferId) = {}

\* no buffer, line or nicklist changed, nothing was sent, no error reported
NothingDone ==
    /\ buffers = pre.buffers
    /\ synced = pre.synced
    /\ nsync = pre.nsync
    /\ last.sent = <<>>
    /\ InvalidData = {}
    /\ HandlerFailed = {}

\* C20: a line, nick or nick_group message that has no event object, or
\* whose event.buffer_id resolves to no mirrored conversation, leaves every
\* conversation, line and nicklist unchanged and reports no error.
C20_NoConversationNoChange == NoConversation => NothingDone

\* C20, the messages that lead to a call of the callback: each call returns
\* at once with success, nothing changes and no error is reported
C20_WhenCalled ==
    NoConversation /\ last.calls # <<>>
        => /\ NothingDone
           /\ \A k \in DOMAIN last.calls :
                /\ last.calls[k].event.buffer = 0
                /\ last.calls[k].rc = WEECHAT_RC_OK

\* C20: messages of a line without event, of a nick whose event names an
\* unknown buffer, and of lines in an array, were dispatched while the
\* remote has a buffer with groups, nicks and a line
C20_Dropped ==
    /\ NoConversation
    /\ Len(last.calls) = 2
    /\ BodyType = "line"
    /\ MessageEvent = JNone
    /\ \E i \in Mirrored(buffers, last.remote) :
          /\ buffers[i].lines # <<>>
          /\ buffers[i].nicklist.nicks # <<>>
    /\ NothingDone

\* C20: the message of a line with an empty array as body and no event was
\* reported as a failure of the callback, which was not called
C20_EmptyBodyReported ==
    /\ NoConversation
    /\ last.calls = <<>>
    /\ HandlerFailed # {}

\* q is the start of r
IsPrefix(q, r) == Len(q) <= Len(r) /\ SubSeq(r, 1, Len(q)) = q

\* the lines of a sequence
LinesIn(q) == {q[i] : i \in 1..Len(q)}

\* the lines of q that were appended (that have a row), in order
AppendedOf(q) ==
    SelectSeqBy(q, {l \in LinesIn(q) :
                       l.printf = "weechat_printf_datetime_tags"})
RowsOf(q) ==
    {l \in LinesIn(q) : l.printf = "weechat_printf_y_datetime_tags"}

\* what buffer i held before the last operation and holds after it, and
\* the calls of the print primitives the operation made for it
HeldBefore(i) == LinesHeld(pre.buffers[i].lines)
HeldAfter(i) == LinesHeld(buffers[i].lines)
CallsFor(i) ==
    SubSeq(buffers[i].lines, Len(pre.buffers[i].lines) + 1,
           Len(buffers[i].lines))

C21_AppendedStays ==
    /\ Dispatched
    /\ BodyType = "line"
    /\ \E i \in 1..Len(pre.buffers) :
          /\ AppendedOf(HeldBefore(i)) # <<>>
          /\ RowsOf(CallsFor(i)) # {}
          /\ AppendedOf(HeldAfter(i)) = AppendedOf(HeldBefore(i))
          /\ Len(HeldAfter(i)) = Len(HeldBefore(i)) + 1

\* C22: in every reachable state of a remote, synced is true if and only if
\* exactly one sync request has been sent to it: the flag is set only
\* directly after the send, at most one sync request is ever sent, a sync
\* request is sent only while dispatching a message with code 200 and
\* body_type "buffer" after all its body elements were handled, and synced
\* never goes back to false.
C22_SyncedIffSent ==
    /\ \A r \in Remotes :
          /\ nsync[r] <= 1
          /\ synced[r] <=> nsync[r] = 1
    /\ pc = "done"
         => \A r \in Remotes :
               /\ pre.synced[r] => synced[r]
               /\ nsync[r] >= pre.nsync[r]
               /\ (synced[r] # pre.synced[r] \/ nsync[r] # pre.nsync[r])
                    => /\ r = last.remote
                       /\ Qualifying
                       /\ Len(last.calls) = NCalls(last.data)
                       /\ HandlerFailed = {}
                       /\ last.sent = <<SyncSent>>
                       /\ synced[r] /\ ~pre.synced[r]
                       /\ nsync[r] = pre.nsync[r] + 1
    /\ (pc = "done" /\ last.op = "recv" /\ last.sent # <<>>)
         => last.sent = <<SyncSent>> /\ ~pre.synced[last.remote]

\* C22 witness: an array of two buffers with code 200 was dispatched for a
\* remote that is synced, both were handled without failure, and no second
\* sync request was sent
C22_Witness ==
    /\ Qualifying
    /\ pre.synced[last.remote]
    /\ pre.nsync[last.remote] = 1
    /\ Len(last.calls) = 2
    /\ HandlerFailed = {}
    /\ last.env.cjson = 2
    /\ last.sent = <<>>
    /\ synced[last.remote]
    /\ nsync[last.remote] = 1

\* C22 witness, the first sync: the sync request was sent after the two
\* buffers of an array were handled, and the flag was set
C22_FirstSync ==
    /\ Qualifying
    /\ ~pre.synced[last.remote]
    /\ pre.nsync[last.remote] = 0
    /\ Len(last.calls) = 2
    /\ last.sent = <<SyncSent>>
    /\ synced[last.remote]
    /\ nsync[last.remote] = 1

====
